---- MODULE Spec2Model ----
(***************************************************************************)
(* Model of the data-acquisition pipeline of the AliExpress Real Price     *)
(* userscript (src/unnamed/part_000, version 1.0.1):                       *)
(*   RateLimiter    - sliding-window admission and exponential backoff     *)
(*   CacheManager   - TTL/capacity bounded Map persisted through GM.*Value *)
(*   DataManager    - fetchProductData: cache, primary API, page fallback  *)
(* JavaScript is single threaded: every action below is the code that runs *)
(* between two suspension points (await of a timer, a network reply or a   *)
(* storage acknowledgement).                                               *)
(***************************************************************************)
EXTENDS Integers, Sequences, FiniteSets, TLC

\* ------------------------------------------------------------------ bounds
NumTasks == 2          \* concurrent tasks (one per product card)
MaxHist == 6           \* sleeps the single-caller history of an instance keeps

MaxQueue == 1          \* GM.setValue calls that may be awaiting their acknowledgement
MaxToggles == 2        \* handleDisableCacheChange calls that may be awaiting theirs at once
MaxCalls == 3          \* direct waitForSlot calls a task makes
MaxCards == 4          \* product cards on the page
MaxVariants == 3       \* variants of a product
MaxSkus == 2           \* entries of a SKU list
maxEntries == 2        \* CACHE_CONFIG.variants.maxEntries (10000), scaled down
duration == 1000       \* CACHE_CONFIG.variants.duration (86400000 ms), scaled down

Tasks == 1..NumTasks

\* --------------------------------------------------------- program constants
\* new RateLimiter(2, 1000) and new RateLimiter(1, 1000)
Limiters == {"api", "page"}
maxRequests == [l \in Limiters |-> IF l = "api" THEN 2 ELSE 1]
timeWindow == 1000
initialBackoffTime == 1000
maxBackoffTime == 32000
resetBackoffTime == 1000

(***************************************************************************)
(* Time.  Every instant the program stores (an admission timestamp, a      *)
(* timer deadline, an expiresAt) is held relative to the current instant:  *)
(* x stands for x - Date.now().  Date.now() therefore reads 0 everywhere,  *)
(* and the passing of time (AdvanceTime) shifts every stored instant down. *)
(* The code only compares stored instants with the present, so an instant  *)
(* further in the past than any comparison can tell is kept at the oldest  *)
(* distinguishable value (Floor).  The clock moves in steps of Tick.       *)
(***************************************************************************)
now == 0
Tick == timeWindow \div 2
NoTime == 0 - 1

Min(a, b) == IF a <= b THEN a ELSE b
Max(a, b) == IF a >= b THEN a ELSE b

\* an instant x, d ms later, not distinguished below floor
Shift(x, d, floor) == Max(x - d, floor)

\* outcomes of the caller-supplied fn of executeWithBackoff
\* no pure function is under examination
NoCalc == [fn |-> "none"]

Retryable == {"FAIL_SYS_ILLEGAL_ACCESS", "FAIL_SYS_USER_VALIDATE"}
GenericOutcomes == {"ok", "network_error"} \cup Retryable

VARIABLES
    requests,     \* RateLimiter.requests, per instance
    backoffTime,  \* RateLimiter.backoffTime, per instance
    pc,           \* where each task is suspended
    lim,          \* the RateLimiter instance the task's executeWithBackoff runs on
    wake,         \* deadline of the task's pending setTimeout (NoTime: none)
    err,          \* outcome of the task's last fn attempt / executeWithBackoff
    recent,       \* history: the last maxRequests admission instants, per instance
    lastGap,      \* history: at the latest admission, the time since the admission
                  \*          maxRequests admissions before it (NoTime: there was none)
    follow,       \* history: whether the backoff sleeps are being recorded (never changes)
    run,          \* history: the backoff sleeps since the instance's last success
    lastRun,      \* history: the sleeps that preceded the instance's last success
    succ,         \* history: whether an action has succeeded on the instance
    slotCalls     \* history: per task, how many direct waitForSlot calls it has made
                  \*          (.n) and whether its latest one was suspended (.waited)

VARIABLES
    isCacheDisabled,  \* the global flag
    cache,            \* CacheManager._cache: the Map's entries in iteration order
    storage,          \* the value stored under 'aliexpress_cache'
    storedFlag,       \* the value stored under 'aliexpress_disable_cache'
    saveQueue,        \* GM.setValue calls not yet acknowledged, oldest first
    ev,               \* history: the latest CacheManager call and what it did
    insOrder,         \* history: the keys in the store, in order of insertion
    lastRead,         \* history: the key whose data get returned most recently
    stale             \* history, kept where .on: per key, .of: whether the stored snapshot
                      \*   held it when the cache was disabled ("disabled") or when the
                      \*   disabling handler cleared the store ("cleared"), with no set or
                      \*   reload since; .drop: the mark it bore at the first set of another
                      \*   key made since, and the writes still to be carried out up to the
                      \*   save of that set

\* DataManager.fetchProductData, one call per task
VARIABLES
    fpc,          \* where the task's fetchProductData call is suspended
    productId,    \* its argument
    productData,  \* its local productData: the basic Product built from the card
    apiError,     \* the error caught from the primary tier ("none": none)
    pageData,     \* what the fallback page fetch produced
    fetchedData,  \* its local fetchedData
    returned      \* how the call ended and with what

\* a pure function examined on its own
VARIABLES
    calc          \* the function, its arguments, whether it has been called, its result

histVars == <<follow, run, lastRun, succ, slotCalls, calc>>
progVars == <<requests, backoffTime, pc, lim, wake, err, recent, lastGap, follow, run, lastRun,
              succ, slotCalls, isCacheDisabled, cache, storage, storedFlag, saveQueue, ev,
              insOrder, lastRead, stale, fpc, productId, productData, apiError, pageData,
              fetchedData, returned>>
rlVars == <<requests, backoffTime, pc, lim, wake, err, recent, lastGap, follow, run, lastRun, succ,
           slotCalls, calc>>
cacheVars == <<isCacheDisabled, cache, storage, storedFlag, saveQueue, ev, insOrder, lastRead,
               stale>>
fetchVars == <<fpc, productId, productData, apiError, pageData, fetchedData, returned>>
vars == <<requests, backoffTime, pc, lim, wake, err, recent, lastGap, follow, run, lastRun, succ,
          slotCalls, calc,
          isCacheDisabled, cache, storage, storedFlag, saveQueue, ev, insOrder, lastRead,
          stale,
          fpc, productId, productData, apiError, pageData, fetchedData, returned>>

\* ------------------------------------------------------------ RateLimiter
\* slip: nothing ever leaves the log
FilterRequests_keepAll(reqs, n) == reqs

\* this.requests.filter(time => now - time < this.timeWindow)
FilterRequests(reqs, n) == SelectSeq(reqs, LAMBDA time : n - time < timeWindow)

\* slip: admits while the log already holds maxRequests entries
HasCapacity_offByOne(reqs, l) == Len(reqs) <= maxRequests[l]

\* this.requests.length < this.maxRequests
HasCapacity(reqs, l) == Len(reqs) < maxRequests[l]

\* this.timeWindow - (now - oldestRequest)
WaitTime(reqs, n) == timeWindow - (n - reqs[1])

\* slip: every error is retried
IsRetryable_anyError(e) == TRUE

\* slip: only the rate-limit code is retried (the test of version 1.0.0)
IsRetryable_onlyIllegalAccess(e) == e = "FAIL_SYS_ILLEGAL_ACCESS"

\* error.message?.includes('FAIL_SYS_ILLEGAL_ACCESS') || ...includes('FAIL_SYS_USER_VALIDATE')
IsRetryable(e) == e \in {"FAIL_SYS_ILLEGAL_ACCESS", "FAIL_SYS_USER_VALIDATE"}

\* slip: a success leaves the backoff where it was
BackoffAfterSuccess_kept(b) == b

\* this.backoffTime = 1000; // Reset backoff on success
BackoffAfterSuccess(b) == resetBackoffTime

\* const result = await fn() does not throw: fn's promise resolved (with data or null)
Resolves(o) == o \in {"ok", "null"}

\* slip: gives up at the first retryable failure
ReachedMaxBackoff_always(b) == TRUE

\* slip: gives up only beyond the maximum
ReachedMaxBackoff_beyond(b) == b > maxBackoffTime

\* this.backoffTime >= this.maxBackoffTime
ReachedMaxBackoff(b) == b >= maxBackoffTime

\* slip: the backoff grows linearly
NextBackoff_linear(b) == Min(b + initialBackoffTime, maxBackoffTime)

\* Math.min(this.backoffTime * 2, this.maxBackoffTime)
NextBackoff(b) == Min(b * 2, maxBackoffTime)

\* slip: the two instances share one backoff
Doubled_everywhere(bt, l) == [x \in Limiters |-> NextBackoff(bt[x])]

\* this.backoffTime = Math.min(...): the backoffTime of this instance only
Doubled(bt, l) == [bt EXCEPT ![l] = NextBackoff(@)]

\* history bookkeeping: the last n elements of s
LastN(s, n) == IF Len(s) <= n THEN s ELSE SubSeq(s, Len(s) - n + 1, Len(s))

\* history bookkeeping: a backoff sleep of d ms on instance l
RecordSleep(l, d) ==
    /\ run' = [run EXCEPT ![l] = IF follow /\ Len(@) < MaxHist THEN Append(@, d) ELSE @]
    /\ UNCHANGED <<follow, lastRun, succ, slotCalls, calc>>

\* history bookkeeping: an action succeeds on instance l
RecordSuccess(l) ==
    IF follow
    THEN /\ lastRun' = [lastRun EXCEPT ![l] = run[l]]
         /\ run' = [run EXCEPT ![l] = <<>>]
         /\ succ' = [succ EXCEPT ![l] = TRUE]
         /\ UNCHANGED <<follow, slotCalls, calc>>
    ELSE UNCHANGED histVars

\* One synchronous run of waitForSlot for task t on instance l: either the
\* admission is recorded, or a timer for the oldest request's expiry is armed.
waitForSlot(t, l) ==
    LET kept == FilterRequests(requests[l], now) IN
    IF HasCapacity(kept, l)
    THEN /\ requests' = [requests EXCEPT ![l] = Append(kept, now)]
         /\ recent' = [recent EXCEPT ![l] = LastN(Append(@, now), maxRequests[l])]
         /\ lastGap' = [lastGap EXCEPT ![l] =
                IF Len(recent[l]) = maxRequests[l] THEN now - recent[l][1] ELSE NoTime]
         /\ pc' = [pc EXCEPT ![t] = "admitted"]
         /\ wake' = [wake EXCEPT ![t] = NoTime]
    ELSE /\ requests' = [requests EXCEPT ![l] = kept]
         /\ recent' = recent
         /\ lastGap' = lastGap
         /\ pc' = [pc EXCEPT ![t] = "slotWait"]
         /\ wake' = [wake EXCEPT ![t] = now + WaitTime(kept, now)]

\* A caller calls waitForSlot() on instance l and awaits it; the body runs
\* synchronously up to the return or the setTimeout
CallWaitForSlot(t, l) ==
    /\ pc[t] = "idle"
    /\ slotCalls.n[t] < MaxCalls
    /\ lim' = [lim EXCEPT ![t] = l]
    /\ waitForSlot(t, l)
    /\ slotCalls' = [n |-> [slotCalls.n EXCEPT ![t] = @ + 1],
                     waited |-> [slotCalls.waited EXCEPT ![t] = pc'[t] = "slotWait"]]
    /\ UNCHANGED <<backoffTime, err, follow, run, lastRun, succ, calc, cacheVars, fetchVars>>

\* the caller's await of waitForSlot() resumes: the call has returned
SlotReturn(t) ==
    /\ pc[t] = "admitted"
    /\ pc' = [pc EXCEPT ![t] = "idle"]
    /\ UNCHANGED <<requests, backoffTime, lim, wake, err, recent, lastGap, histVars>>
    /\ UNCHANGED <<cacheVars, fetchVars>>

\* A caller enters executeWithBackoff(fn) on instance l: the loop's first
\* waitForSlot runs synchronously.
CallExecuteWithBackoff(t, l) ==
    /\ pc[t] \in {"idle", "ewbReturned", "ewbThrown"}
    /\ lim' = [lim EXCEPT ![t] = l]
    /\ err' = [err EXCEPT ![t] = "none"]
    /\ waitForSlot(t, l)
    /\ UNCHANGED <<backoffTime, histVars, cacheVars, fetchVars>>

\* The setTimeout of waitForSlot fires: return this.waitForSlot()
SlotTimer(t) ==
    /\ pc[t] = "slotWait"
    /\ now >= wake[t]
    /\ waitForSlot(t, lim[t])
    /\ UNCHANGED <<backoffTime, lim, err, histVars, cacheVars, fetchVars>>

\* await this.waitForSlot() resumes: fn() is invoked and its request sent
InvokeFn(t) ==
    /\ pc[t] = "admitted"
    /\ pc' = [pc EXCEPT ![t] = "inflight"]
    /\ UNCHANGED <<requests, backoffTime, lim, wake, err, recent, lastGap, histVars, cacheVars, fetchVars>>

\* await fn() ends with outcome o: the rest of the try block, or the catch
\* block, of executeWithBackoff runs. The caught error is dead once the catch
\* block goes to sleep.
AfterFn(t, o) ==
    LET l == lim[t] IN
    /\ IF Resolves(o)
       THEN /\ backoffTime' = [backoffTime EXCEPT ![l] = BackoffAfterSuccess(@)]
            /\ pc' = [pc EXCEPT ![t] = "ewbReturned"]
            /\ err' = [err EXCEPT ![t] = o]
            /\ wake' = wake
            /\ RecordSuccess(l)
       ELSE IF IsRetryable(o)
       THEN IF ReachedMaxBackoff(backoffTime[l])
            THEN /\ pc' = [pc EXCEPT ![t] = "ewbThrown"]
                 /\ err' = [err EXCEPT ![t] = o]
                 /\ wake' = wake
                 /\ backoffTime' = backoffTime
                 /\ UNCHANGED histVars
            ELSE /\ pc' = [pc EXCEPT ![t] = "backoffSleep"]
                 /\ err' = [err EXCEPT ![t] = "none"]
                 /\ wake' = [wake EXCEPT ![t] = now + backoffTime[l]]
                 /\ backoffTime' = backoffTime
                 /\ RecordSleep(l, backoffTime[l])
       ELSE /\ pc' = [pc EXCEPT ![t] = "ewbThrown"]
            /\ err' = [err EXCEPT ![t] = o]
            /\ wake' = wake
            /\ backoffTime' = backoffTime
            /\ UNCHANGED histVars
    /\ UNCHANGED <<requests, lim, recent, lastGap, cacheVars, fetchVars>>

\* the request fn() sent settles with outcome o
FnSettle(t, o) ==
    /\ pc[t] = "inflight"
    /\ AfterFn(t, o)

\* slip: the retry invokes fn() again without asking for a slot
Continue_unadmitted(t, l) ==
    /\ pc' = [pc EXCEPT ![t] = "inflight"]
    /\ UNCHANGED <<requests, recent, lastGap, wake>>

\* continue: the loop starts over with await this.waitForSlot()
Continue(t, l) == waitForSlot(t, l)

\* The backoff setTimeout fires: double the backoff, continue the loop
BackoffTimer(t) ==
    /\ pc[t] = "backoffSleep"
    /\ now >= wake[t]
    /\ backoffTime' = Doubled(backoffTime, lim[t])
    /\ Continue(t, lim[t])
    /\ UNCHANGED <<lim, err, histVars, cacheVars, fetchVars>>

\* ------------------------------------------------------------ CacheManager
Products == {"p1", "p2", "p3"}
Tiers == {"api", "page", "basic"}

\* `product_${productId}`
CacheKey(p) == "product_" \o p
Keys == {CacheKey(p) : p \in Products}
NoKey == "none"

\* a Product, by the product it describes and the tier that produced it
Product(p, tier) == [productId |-> p, from |-> tier]
NoData == Product("none", "none")

\* Map: has, get, delete, set (an existing key keeps its place), keys
MapHas(m, k) == \E i \in 1..Len(m) : m[i].key = k
MapGet(m, k) == m[CHOOSE i \in 1..Len(m) : m[i].key = k]
MapDelete(m, k) == SelectSeq(m, LAMBDA e : e.key # k)
\* slip: a set of a key the Map holds is ignored
MapSet_keepFirst(m, k, e) == IF MapHas(m, k) THEN m ELSE Append(m, e)
\* slip: a key that is set again moves to the end
MapSet_moveToEnd(m, k, e) == Append(MapDelete(m, k), e)
MapSet(m, k, e) ==
    IF MapHas(m, k)
    THEN [i \in 1..Len(m) |-> IF m[i].key = k THEN e ELSE m[i]]
    ELSE Append(m, e)
MapKeys(m) == [i \in 1..Len(m) |-> m[i].key]
KeySet(m) == {m[i].key : i \in 1..Len(m)}

\* slip: the comparison is the wrong way round
IsExpired_flipped(e, n) == n < e.expiresAt

\* Date.now() > entry.expiresAt
IsExpired(e, n) == n > e.expiresAt

\* slip: every stored entry is loaded
LoadEntries_all(parsed, n) == parsed

\* loadFromStorage: the entries with Date.now() <= entry.expiresAt, in stored order
LoadEntries(parsed, n) == SelectSeq(parsed, LAMBDA e : n <= e.expiresAt)

\* slip: evicts only once the limit is already exceeded
NeedsEviction_late(exists, size, limit) == ~exists /\ size > limit

\* !exists && currentSizeBefore >= config.maxEntries
NeedsEviction(exists, size, limit) == ~exists /\ size >= limit

\* slip: evicts the newest key
EvictOldest_newest(m) == IF Len(m) > 0 THEN MapDelete(m, m[Len(m)].key) ELSE m

\* this._cache.delete(this._cache.keys().next().value)
EvictOldest(m) == IF Len(m) > 0 THEN MapDelete(m, m[1].key) ELSE m

\* { data, timestamp: Date.now(), expiresAt: Date.now() + config.duration }
NewEntry(k, d, n) == [key |-> k, data |-> d, timestamp |-> n, expiresAt |-> n + duration]

\* slip: get and set ignore the flag
CacheBypassed_never(disabled) == FALSE

\* get: if (isCacheDisabled) return null;  set: if (isCacheDisabled) return
CacheBypassed(disabled) == disabled

\* the store after get(key): an expired entry is deleted
CacheAfterGet(m, k) ==
    IF MapHas(m, k) /\ IsExpired(MapGet(m, k), now) THEN MapDelete(m, k) ELSE m

\* what get(key) returns on the store m
GetResult(m, k) ==
    IF MapHas(m, k) /\ ~IsExpired(MapGet(m, k), now) THEN MapGet(m, k).data ELSE NoData

\* the store after set(key, data, CACHE_CONFIG.variants)
CacheAfterSet(m, k, d) ==
    MapSet(IF NeedsEviction(MapHas(m, k), Len(m), maxEntries) THEN EvictOldest(m) ELSE m,
           k, NewEntry(k, d, now))

\* slip: the save is issued whatever the flag
SkipSave_never(disabled) == FALSE

\* slip: nothing is ever saved
SkipSave_always(disabled) == TRUE

\* saveToStorage: if (isCacheDisabled) return
SkipSave(disabled) == disabled

\* saveToStorage of the store m, awaited by `by`: GM.setValue('aliexpress_cache', ...)
\* JSON.stringify keeps the Map order (the keys are not integer-like) and the numbers
Saved(q, disabled, m, by) ==
    IF SkipSave(disabled) THEN q
    ELSE Append(q, [k |-> "aliexpress_cache", snap |-> m, flag |-> FALSE, by |-> by])

\* the saves of the store that are issued and not yet carried out
CacheSaves(q) == Cardinality({i \in 1..Len(q) : q[i].k = "aliexpress_cache"})

\* the writes of the flag that are issued and not yet carried out
FlagWrites(q) == Cardinality({i \in 1..Len(q) : q[i].k = "aliexpress_disable_cache"})

\* slip: clear() leaves the Map as it is
Cleared_not(m) == m

\* this._cache.clear()
Cleared(m) == <<>>

\* history bookkeeping: no set has been made since the key was marked
NoDrop == [was |-> "none", wait |-> 0]

\* history bookkeeping: the keys in ks become what in s, where it is kept
MarkIn(s, ks, what) ==
    IF s.on
    THEN [s EXCEPT !.of = [k \in Keys |-> IF k \in ks THEN what ELSE @[k]]]
    ELSE s

\* history bookkeeping: the keys in ks become what, where stale is kept
Mark(ks, what) ==
    stale' = MarkIn(stale, ks, what)

\* history bookkeeping: set(k) has stored k and issued its save as the last of
\* the writes q; every other marked key that no set has dropped under its
\* present mark is dropped by this one
MarkSet(k, q) ==
    stale' = IF stale.on
             THEN [stale EXCEPT
                     !.of = [j \in Keys |-> IF j = k THEN "none" ELSE @[j]],
                     !.drop = [j \in Keys |->
                                 IF j = k THEN NoDrop
                                 ELSE IF /\ stale.of[j] # "none"
                                         /\ stale.drop[j].was \in {"none", "disabled"}
                                         /\ stale.drop[j].was # stale.of[j]
                                 THEN [was |-> stale.of[j], wait |-> Len(q)]
                                 ELSE @[j]]]
             ELSE stale

\* history bookkeeping: the oldest write has been carried out
Popped(s) ==
    [s EXCEPT !.drop = [j \in Keys |->
                          IF s.drop[j].wait > 0
                          THEN [s.drop[j] EXCEPT !.wait = s.drop[j].wait - 1]
                          ELSE s.drop[j]]]

\* history bookkeeping: initialize() has reloaded the stored snapshot
Reloaded(s) ==
    IF s.on
    THEN [s EXCEPT !.of = [j \in Keys |-> "none"],
                   !.drop = [j \in Keys |->
                               IF s.drop[j].wait > 0 THEN NoDrop ELSE s.drop[j]]]
    ELSE s

NoEvent ==
    [op |-> "none", key |-> NoKey, ret |-> NoData, found |-> FALSE, exp |-> 0,
     existed |-> FALSE, size |-> 0, oldest |-> NoKey, readLast |-> NoKey,
     removed |-> {}, disabled |-> FALSE, saved |-> FALSE, savedKeys |-> {},
     by |-> 0, changed |-> FALSE]

\* history bookkeeping: the keys of ord, without those in gone
Without(ord, gone) == SelectSeq(ord, LAMBDA k : k \notin gone)

\* cacheManager.initialize(): loadFromStorage
CacheInitialize ==
    /\ cache' = IF isCacheDisabled THEN Cleared(cache)
                ELSE IF storage.present THEN LoadEntries(storage.snap, now)
                ELSE cache
    /\ stale' = IF ~isCacheDisabled /\ storage.present THEN Reloaded(stale) ELSE stale
    /\ insOrder' = IF isCacheDisabled THEN MapKeys(Cleared(cache))
                   ELSE IF storage.present
                   THEN MapKeys(SelectSeq(storage.snap, LAMBDA e : e.expiresAt >= 0))
                   ELSE insOrder
    /\ ev' = [NoEvent EXCEPT !.op = "initialize", !.disabled = isCacheDisabled]
    /\ lastRead' = NoKey
    /\ UNCHANGED <<isCacheDisabled, storage, storedFlag, saveQueue>>

\* cacheManager.get(key), up to its return or its await of the save
CacheGet(k, by) ==
    LET after == IF CacheBypassed(isCacheDisabled) THEN cache ELSE CacheAfterGet(cache, k)
        ret == IF CacheBypassed(isCacheDisabled) THEN NoData ELSE GetResult(cache, k)
        found == MapHas(cache, k)
        saves == after # cache
    IN
    /\ cache' = after
    /\ saveQueue' = IF saves THEN Saved(saveQueue, isCacheDisabled, after, by) ELSE saveQueue
    /\ insOrder' = Without(insOrder, KeySet(cache) \ KeySet(after))
    /\ lastRead' = IF ret # NoData THEN k
                   ELSE IF lastRead \in KeySet(after) THEN lastRead ELSE NoKey
    /\ stale' = stale
    /\ ev' = [NoEvent EXCEPT !.op = "get", !.key = k, !.ret = ret, !.found = found,
                             !.by = by, !.changed = after # cache,
                             !.exp = IF found THEN MapGet(cache, k).expiresAt ELSE 0,
                             !.disabled = isCacheDisabled,
                             !.removed = KeySet(cache) \ KeySet(after),
                             !.saved = saveQueue' # saveQueue,
                             !.savedKeys = IF saveQueue' # saveQueue THEN KeySet(after) ELSE {}]
    /\ UNCHANGED <<isCacheDisabled, storage, storedFlag>>

\* cacheManager.set(key, data, CACHE_CONFIG.variants), up to its await of the save
CacheSet(k, d, by) ==
    LET bypassed == CacheBypassed(isCacheDisabled)
        after == IF bypassed THEN cache ELSE CacheAfterSet(cache, k, d)
        gone == KeySet(cache) \ KeySet(after)
    IN
    /\ cache' = after
    /\ saveQueue' = IF bypassed THEN saveQueue
                    ELSE Saved(saveQueue, isCacheDisabled, after, by)
    /\ insOrder' = IF bypassed THEN insOrder
                   ELSE IF k \in KeySet(cache) THEN insOrder
                   ELSE Append(Without(insOrder, gone), k)
    /\ lastRead' = IF lastRead \in KeySet(after) THEN lastRead ELSE NoKey
    /\ IF bypassed THEN stale' = stale ELSE MarkSet(k, saveQueue')
    /\ ev' = [NoEvent EXCEPT !.op = "set", !.key = k,
                             !.by = by, !.changed = after # cache,
                             !.existed = MapHas(cache, k), !.size = Len(cache),
                             !.oldest = IF insOrder = <<>> THEN NoKey ELSE Head(insOrder),
                             !.readLast = lastRead,
                             !.removed = gone, !.disabled = isCacheDisabled,
                             !.saved = saveQueue' # saveQueue,
                             !.savedKeys = IF saveQueue' # saveQueue THEN KeySet(after) ELSE {}]
    /\ UNCHANGED <<isCacheDisabled, storage, storedFlag>>

\* cacheManager.clear(), up to its await of the save; flag is isCacheDisabled as it reads it
CacheClearWith(flag, q, by) ==
    /\ cache' = Cleared(cache)
    /\ saveQueue' = Saved(q, flag, Cleared(cache), by)
    /\ insOrder' = MapKeys(Cleared(cache))
    /\ lastRead' = NoKey
    /\ ev' = [NoEvent EXCEPT !.op = "clear", !.removed = KeySet(cache), !.disabled = flag,
                             !.by = by, !.changed = cache # <<>>,
                             !.saved = saveQueue' # q]

\* ---- the CacheManager driven call by call
Get(k) ==
    /\ CacheGet(k, 0)
    /\ Len(saveQueue') <= MaxQueue
    /\ UNCHANGED <<rlVars, fetchVars>>

Set(k, d) ==
    /\ CacheSet(k, d, 0)
    /\ Len(saveQueue') <= MaxQueue
    /\ UNCHANGED <<rlVars, fetchVars>>

\* the Clear Cache button: clearCacheAndReload up to the await of clear()
Clear ==
    /\ CacheClearWith(isCacheDisabled, saveQueue, 0)
    /\ Len(saveQueue') <= MaxQueue
    /\ UNCHANGED <<isCacheDisabled, storage, storedFlag, stale>>
    /\ UNCHANGED <<rlVars, fetchVars>>

Initialize ==
    /\ CacheInitialize
    /\ UNCHANGED <<rlVars, fetchVars>>

\* handleDisableCacheChange, up to its await GM.setValue('aliexpress_disable_cache', ...)
DisableCacheChange(b) ==
    /\ isCacheDisabled' = b
    /\ saveQueue' = Append(saveQueue,
          [k |-> "aliexpress_disable_cache", snap |-> <<>>, flag |-> b, by |-> 0])
    /\ ev' = [NoEvent EXCEPT !.op = "toggle", !.disabled = b]
    /\ Mark(IF b THEN {k \in KeySet(storage.snap) : stale.of[k] = "none"} ELSE {},
            "disabled")
    /\ UNCHANGED <<cache, storage, storedFlag, insOrder, lastRead>>
    /\ UNCHANGED <<rlVars, fetchVars>>

\* the checkbox is operated while no write is pending
HandleDisableCacheChange(b) ==
    /\ Len(saveQueue) < MaxQueue
    /\ DisableCacheChange(b)

\* the checkbox is operated again while earlier handlers still await their writes
HandleDisableCacheChangeAgain(b) ==
    /\ saveQueue # <<>>
    /\ FlagWrites(saveQueue) = Len(saveQueue)
    /\ FlagWrites(saveQueue) < MaxToggles
    /\ DisableCacheChange(b)

\* The oldest GM.setValue is carried out and acknowledged.  The acknowledgement
\* of the flag resumes handleDisableCacheChange: if (isCacheDisabled) clear()
StorageWrite ==
    /\ saveQueue # <<>>
    /\ LET w == Head(saveQueue) IN
       IF w.k = "aliexpress_cache"
       THEN /\ storage' = [present |-> TRUE, snap |-> w.snap]
            /\ saveQueue' = Tail(saveQueue)
            /\ stale' = Popped(stale)
            /\ UNCHANGED <<isCacheDisabled, cache, storedFlag, ev, insOrder, lastRead>>
       ELSE /\ storedFlag' = w.flag
            /\ IF isCacheDisabled
               THEN /\ CacheClearWith(isCacheDisabled, Tail(saveQueue), 0)
                    /\ stale' = MarkIn(Popped(stale), KeySet(storage.snap), "cleared")
               ELSE /\ saveQueue' = Tail(saveQueue)
                    /\ stale' = Popped(stale)
                    /\ UNCHANGED <<cache, ev, insOrder, lastRead>>
            /\ UNCHANGED <<isCacheDisabled, storage>>
    /\ UNCHANGED <<rlVars, fetchVars>>

\* ------------------------------------------- DataManager.fetchProductData
\* what the request of the primary tier can end with; a malformed or unparsable
\* reply is rejected like network_error, with an error that is not retried
ApiOutcomes == {"ok", "network_error", "api_other_error"} \cup Retryable

\* slip: a rate-limit answer to the page request is passed on as a rejection
PageOutcomes_rejecting == {"ok", "null", "FAIL_SYS_ILLEGAL_ACCESS"}

\* fetchDataFromProductPage resolves with the extracted Product or with null
PageOutcomes == {"ok", "null"}

Outcomes(l) == IF l = "api" THEN ApiOutcomes ELSE PageOutcomes

NoReturn == [how |-> "pending", data |-> NoData, error |-> "none"]

\* slip: the save is not awaited
AwaitsSave_never(t) == FALSE

\* the task awaits a saveToStorage it issued
AwaitsSave(t) == \E i \in 1..Len(saveQueue) : saveQueue[i].by = t

\* fetchedData after the fallback tier: pageData if any, then the basic data
\* from the card whenever there is some
AfterFallback(page, basic) == IF basic # NoData THEN basic ELSE page

\* fetchedData after catch (fetchParseError): basic data if nothing was fetched,
\* else null; nothing is rethrown
AfterOuterCatch(basic, fetched) ==
    IF basic # NoData /\ fetched = NoData THEN basic ELSE fetched

\* slip: data that came from the card alone counts as no data
HasData_notBasic(fetched) == fetched # NoData /\ fetched.from # "basic"

\* if (fetchedData): something to cache and to return
HasData(fetched) == fetched # NoData

\* slip: the cached data is never used
IsHit_never(cachedData) == FALSE

\* if (cachedData)
IsHit(cachedData) == cachedData # NoData

\* fetchProductData(productId) is called: await this.cacheManager.get(cacheKey)
FetchStart(t, p) ==
    /\ fpc[t] \in {"idle", "done"}
    /\ CacheGet(CacheKey(p), t)
    /\ productId' = [productId EXCEPT ![t] = p]
    /\ productData' = [productData EXCEPT ![t] = NoData]
    /\ apiError' = [apiError EXCEPT ![t] = "none"]
    /\ pageData' = [pageData EXCEPT ![t] = NoData]
    /\ fetchedData' = [fetchedData EXCEPT ![t] = NoData]
    /\ IF IsHit(ev'.ret)
       THEN /\ fpc' = [fpc EXCEPT ![t] = "done"]
            /\ returned' = [returned EXCEPT ![t] =
                   [how |-> "cached", data |-> ev'.ret, error |-> "none"]]
       ELSE /\ fpc' = [fpc EXCEPT ![t] = "cacheGet"]
            /\ returned' = [returned EXCEPT ![t] = NoReturn]
    /\ UNCHANGED rlVars

\* get returned null: the basic data is read from the card, if the page has
\* one, and apiRateLimiter.executeWithBackoff is entered
FetchTiers(t, card) ==
    /\ fpc[t] = "cacheGet"
    /\ ~AwaitsSave(t)
    /\ productData' = [productData EXCEPT ![t] =
           IF card THEN Product(productId[t], "basic") ELSE NoData]
    /\ fpc' = [fpc EXCEPT ![t] = "api"]
    /\ lim' = [lim EXCEPT ![t] = "api"]
    /\ err' = [err EXCEPT ![t] = "none"]
    /\ waitForSlot(t, "api")
    /\ UNCHANGED <<backoffTime, histVars, cacheVars>>
    /\ UNCHANGED <<productId, apiError, pageData, fetchedData, returned>>

\* throw new Error('No token found for API call')
NoTokenError == "No token found for API call"

\* await this.waitForSlot() resumes and the primary tier's fn is invoked: it
\* finds no _m_h5_tk token and throws before building a request; the catch
\* block of executeWithBackoff runs
InvokeFnNoToken(t) ==
    /\ pc[t] = "admitted"
    /\ fpc[t] = "api"
    /\ AfterFn(t, NoTokenError)

\* the await of the primary tier ends: parse and go on to cache the data, or
\* catch (apiError) and enter pageFetchRateLimiter.executeWithBackoff
FetchApiDone(t) ==
    /\ fpc[t] = "api"
    /\ pc[t] \in {"ewbReturned", "ewbThrown"}
    /\ IF pc[t] = "ewbReturned"
       THEN /\ fetchedData' = [fetchedData EXCEPT ![t] = Product(productId[t], "api")]
            /\ CacheSet(CacheKey(productId[t]), Product(productId[t], "api"), t)
            /\ fpc' = [fpc EXCEPT ![t] = "cacheSet"]
            /\ pc' = [pc EXCEPT ![t] = "idle"]
            /\ UNCHANGED <<requests, backoffTime, lim, wake, err, recent, lastGap, histVars>>
            /\ UNCHANGED <<productId, productData, apiError, pageData, returned>>
       ELSE /\ apiError' = [apiError EXCEPT ![t] = err[t]]
            /\ fpc' = [fpc EXCEPT ![t] = "page"]
            /\ lim' = [lim EXCEPT ![t] = "page"]
            /\ err' = [err EXCEPT ![t] = "none"]
            /\ waitForSlot(t, "page")
            /\ UNCHANGED <<backoffTime, histVars, cacheVars>>
            /\ UNCHANGED <<productId, productData, pageData, fetchedData, returned>>

\* the await of the fallback tier ends: the rest of catch (apiError), the outer
\* catch, and the caching of the final data or the return of null
FetchPageDone(t) ==
    LET page == IF pc[t] = "ewbReturned" /\ err[t] = "ok"
                THEN Product(productId[t], "page") ELSE NoData
        fetched == AfterFallback(page, productData[t])
        final == IF fetched = NoData THEN AfterOuterCatch(productData[t], fetched)
                 ELSE fetched
    IN
    /\ fpc[t] = "page"
    /\ pc[t] \in {"ewbReturned", "ewbThrown"}
    /\ pageData' = [pageData EXCEPT ![t] = page]
    /\ fetchedData' = [fetchedData EXCEPT ![t] = final]
    /\ pc' = [pc EXCEPT ![t] = "idle"]
    /\ IF HasData(final)
       THEN /\ CacheSet(CacheKey(productId[t]), final, t)
            /\ fpc' = [fpc EXCEPT ![t] = "cacheSet"]
            /\ returned' = returned
       ELSE /\ fpc' = [fpc EXCEPT ![t] = "done"]
            /\ returned' = [returned EXCEPT ![t] =
                   [how |-> "null", data |-> NoData, error |-> "none"]]
            /\ UNCHANGED cacheVars
    /\ UNCHANGED <<requests, backoffTime, lim, wake, err, recent, lastGap, histVars>>
    /\ UNCHANGED <<productId, productData, apiError>>

\* await this.cacheManager.set(...) ends: return fetchedData
FetchReturn(t) ==
    /\ fpc[t] = "cacheSet"
    /\ ~AwaitsSave(t)
    /\ fpc' = [fpc EXCEPT ![t] = "done"]
    /\ returned' = [returned EXCEPT ![t] =
           [how |-> "value", data |-> fetchedData[t], error |-> "none"]]
    /\ UNCHANGED <<rlVars, cacheVars>>
    /\ UNCHANGED <<productId, productData, apiError, pageData, fetchedData>>

\* ------------------------------------------------------------------- time
ShiftEntry(e, d) ==
    [e EXCEPT !.timestamp = Shift(@, d, 0 - duration - Tick),
              !.expiresAt = Shift(@, d, 0 - Tick)]
ShiftSnap(m, d) == [i \in 1..Len(m) |-> ShiftEntry(m[i], d)]

\* d ms pass: every stored instant moves d further into the past
Elapse(d) ==
    /\ requests' = [l \in Limiters |->
          [i \in 1..Len(requests[l]) |-> Shift(requests[l][i], d, 0 - timeWindow)]]
    /\ recent' = [l \in Limiters |->
          [i \in 1..Len(recent[l]) |-> Shift(recent[l][i], d, 0 - timeWindow)]]
    /\ wake' = [t \in Tasks |-> IF wake[t] = NoTime THEN NoTime ELSE Shift(wake[t], d, 0)]
    /\ cache' = ShiftSnap(cache, d)
    /\ storage' = [storage EXCEPT !.snap = ShiftSnap(@, d)]
    /\ saveQueue' = [i \in 1..Len(saveQueue) |->
          [saveQueue[i] EXCEPT !.snap = ShiftSnap(@, d)]]
    /\ UNCHANGED <<backoffTime, pc, lim, err, lastGap, histVars>>
    /\ UNCHANGED <<isCacheDisabled, storedFlag, ev, insOrder, lastRead, stale>>
    /\ UNCHANGED fetchVars

\* Tick ms pass
AdvanceTime == Elapse(Tick)

\* the tasks asleep in a backoff, and the earliest of their deadlines
Sleepers == {t \in Tasks : pc[t] = "backoffSleep" /\ wake[t] > Tick}
NextWake == CHOOSE w \in {wake[t] : t \in Sleepers} : \A t \in Sleepers : w <= wake[t]

\* time passes: up to the earliest backoff deadline while a task is asleep in
\* a backoff, by Tick ms otherwise
TimePasses == Elapse(IF Sleepers # {} THEN NextWake ELSE Tick)

\* ---------------------------------------------------------- specifications
InitLimiters ==
    /\ requests = [l \in Limiters |-> <<>>]
    /\ backoffTime = [l \in Limiters |-> initialBackoffTime]
    /\ pc = [t \in Tasks |-> "idle"]
    /\ lim = [t \in Tasks |-> "api"]
    /\ wake = [t \in Tasks |-> NoTime]
    /\ err = [t \in Tasks |-> "none"]
    /\ recent = [l \in Limiters |-> <<>>]
    /\ lastGap = [l \in Limiters |-> NoTime]
    /\ run = [l \in Limiters |-> <<>>]
    /\ lastRun = [l \in Limiters |-> <<>>]
    /\ succ = [l \in Limiters |-> FALSE]
    /\ slotCalls = [n |-> [t \in Tasks |-> 0], waited |-> [t \in Tasks |-> FALSE]]

\* a first page load: nothing stored yet, init() has run
InitCacheManager ==
    /\ isCacheDisabled = FALSE
    /\ cache = <<>>
    /\ storage = [present |-> FALSE, snap |-> <<>>]
    /\ storedFlag = FALSE
    /\ saveQueue = <<>>
    /\ ev = NoEvent
    /\ insOrder = <<>>
    /\ lastRead = NoKey
    /\ stale \in {[on |-> b, of |-> [k \in Keys |-> "none"],
                    drop |-> [k \in Keys |-> NoDrop]] : b \in BOOLEAN}

InitFetch ==
    /\ fpc = [t \in Tasks |-> "idle"]
    /\ productId = [t \in Tasks |-> "none"]
    /\ productData = [t \in Tasks |-> NoData]
    /\ apiError = [t \in Tasks |-> "none"]
    /\ pageData = [t \in Tasks |-> NoData]
    /\ fetchedData = [t \in Tasks |-> NoData]
    /\ returned = [t \in Tasks |-> NoReturn]

\* RateLimiter driven by NumTasks concurrent callers of executeWithBackoff
InitRL == InitLimiters /\ InitCacheManager /\ InitFetch /\ calc = NoCalc /\ follow = FALSE /\ ~stale.on

NextRL ==
    \/ \E t \in Tasks, l \in Limiters : CallExecuteWithBackoff(t, l)
    \/ \E t \in Tasks : SlotTimer(t)
    \/ \E t \in Tasks : InvokeFn(t)
    \/ \E t \in Tasks, o \in GenericOutcomes : FnSettle(t, o)
    \/ \E t \in Tasks : BackoffTimer(t)
    \/ AdvanceTime

SpecRL == InitRL /\ [][NextRL]_vars

\* waitForSlot called directly by NumTasks concurrent callers, MaxCalls times
\* each at most; a timer that is due fires, and time advances
NextSlots ==
    \/ \E t \in Tasks, l \in Limiters : CallWaitForSlot(t, l)
    \/ \E t \in Tasks : SlotTimer(t)
    \/ \E t \in Tasks : SlotReturn(t)
    \/ AdvanceTime

FairSlots ==
    /\ \A t \in Tasks : WF_vars(SlotTimer(t))
    /\ WF_vars(AdvanceTime)

SpecSlots == InitRL /\ [][NextSlots]_vars /\ FairSlots

\* RateLimiter driven by a single task, its backoff sleeps recorded
InitSolo == InitLimiters /\ InitCacheManager /\ InitFetch /\ calc = NoCalc /\ follow = TRUE /\ ~stale.on

NextSolo ==
    \/ \E l \in Limiters : CallExecuteWithBackoff(1, l)
    \/ SlotTimer(1)
    \/ InvokeFn(1)
    \/ \E o \in GenericOutcomes : FnSettle(1, o)
    \/ BackoffTimer(1)
    \/ AdvanceTime

SpecSolo == InitSolo /\ [][NextSolo]_vars

\* CacheManager driven call by call
InitCache == InitLimiters /\ InitCacheManager /\ InitFetch /\ calc = NoCalc /\ follow = FALSE /\ ~stale.on

NextCache ==
    \/ Initialize
    \/ \E p \in Products : Get(CacheKey(p))
    \/ \E p \in Products : Set(CacheKey(p), Product(p, "api"))
    \/ Clear
    \/ \E b \in BOOLEAN : HandleDisableCacheChange(b)
    \/ StorageWrite
    \/ AdvanceTime

SpecCache == InitCache /\ [][NextCache]_vars

\* CacheManager driven call by call, the checkbox operated at any moment, the
\* keys the disabling left behind in the stored snapshot recorded
InitToggle == InitLimiters /\ InitCacheManager /\ InitFetch /\ calc = NoCalc /\ follow = FALSE /\ stale.on

ToggleProducts == {"p1", "p2"}

NextToggle ==
    \/ Initialize
    \/ \E p \in ToggleProducts : Get(CacheKey(p))
    \/ \E p \in ToggleProducts : Set(CacheKey(p), Product(p, "api"))
    \/ \E b \in BOOLEAN : HandleDisableCacheChange(b)
    \/ \E b \in BOOLEAN : HandleDisableCacheChangeAgain(b)
    \/ StorageWrite
    \/ AdvanceTime

SpecToggle == InitToggle /\ [][NextToggle]_vars

\* The script at work: fetchProductData calls on the cache and the two limiters,
\* with the Disable Cache checkbox
FetchTasks == {1}
FetchProducts == {"p1"}

Init == InitLimiters /\ InitCacheManager /\ InitFetch /\ calc = NoCalc /\ follow = FALSE /\ ~stale.on

Next ==
    \/ \E t \in FetchTasks, p \in FetchProducts : FetchStart(t, p)
    \/ \E t \in FetchTasks, card \in BOOLEAN : FetchTiers(t, card)
    \/ \E t \in FetchTasks : SlotTimer(t)
    \/ \E t \in FetchTasks : InvokeFn(t)
    \/ \E t \in FetchTasks : InvokeFnNoToken(t)
    \/ \E t \in FetchTasks : \E o \in Outcomes(lim[t]) : FnSettle(t, o)
    \/ \E t \in FetchTasks : BackoffTimer(t)
    \/ \E t \in FetchTasks : FetchApiDone(t)
    \/ \E t \in FetchTasks : FetchPageDone(t)
    \/ \E t \in FetchTasks : FetchReturn(t)
    \/ \E b \in BOOLEAN : HandleDisableCacheChange(b)
    \/ StorageWrite
    \/ TimePasses

Spec == Init /\ [][Next]_vars

\* Two cards of the same product enhanced at once: two fetchProductData calls
\* for it run concurrently; the primary tier succeeds or fails for good
PairProducts == {"p1"}
PairOutcomes(l) == IF l = "api" THEN {"ok", "network_error"} ELSE PageOutcomes

NextPair ==
    \/ \E t \in Tasks, p \in PairProducts : FetchStart(t, p)
    \/ \E t \in Tasks, card \in BOOLEAN : FetchTiers(t, card)
    \/ \E t \in Tasks : SlotTimer(t)
    \/ \E t \in Tasks : InvokeFn(t)
    \/ \E t \in Tasks : \E o \in PairOutcomes(lim[t]) : FnSettle(t, o)
    \/ \E t \in Tasks : FetchApiDone(t)
    \/ \E t \in Tasks : FetchPageDone(t)
    \/ \E t \in Tasks : FetchReturn(t)
    \/ StorageWrite
    \/ TimePasses

SpecPair == Init /\ [][NextPair]_vars

\* Two cards of product p1 enhanced at once, one fetchProductData call each,
\* after earlier calls have cached other products
RaceProduct == "p1"
OtherProducts == Products \ {RaceProduct}

\* an earlier fetchProductData call for another product cached its Product
EarlierSet(p) ==
    /\ \A t \in Tasks : fpc[t] = "idle"
    /\ Set(CacheKey(p), Product(p, "api"))

\* a card's one call of fetchProductData
FetchOnce(t, p) ==
    /\ fpc[t] = "idle"
    /\ FetchStart(t, p)

NextRace ==
    \/ \E p \in OtherProducts : EarlierSet(p)
    \/ \E t \in Tasks : FetchOnce(t, RaceProduct)
    \/ \E t \in Tasks, card \in BOOLEAN : FetchTiers(t, card)
    \/ \E t \in Tasks : SlotTimer(t)
    \/ \E t \in Tasks : InvokeFn(t)
    \/ \E t \in Tasks : \E o \in PairOutcomes(lim[t]) : FnSettle(t, o)
    \/ \E t \in Tasks : FetchApiDone(t)
    \/ \E t \in Tasks : FetchPageDone(t)
    \/ \E t \in Tasks : FetchReturn(t)
    \/ StorageWrite
    \/ TimePasses

SpecRace == Init /\ [][NextRace]_vars

\* Two cards enhanced at once: the call for product ItemX meets a challenge or
\* a transport error at every primary request, gets nothing from the fallback
\* page and has no card data, and so does the call for product ItemZ, whose
\* card is enhanced once the call for ItemX has ended; every primary request
\* of the call for product ItemY succeeds. What is pending for ItemY's call is
\* eventually carried out.
ItemX == "p1"
ItemY == "p2"
ItemZ == "p3"
TaskX == 1
TaskY == 2
ItemOf(t) == IF t = TaskX THEN ItemX ELSE ItemY
ItemOutcomes(t, l) ==
    IF t = TaskY THEN {"ok"}
    ELSE IF l = "api" THEN {"FAIL_SYS_USER_VALIDATE", "network_error"} ELSE {"null"}

\* a later card: once the task's call for product p has ended, its call for
\* product q begins
FetchAfter(t, p, q) ==
    /\ fpc[t] = "done"
    /\ productId[t] = p
    /\ FetchStart(t, q)

NextItems ==
    \/ \E t \in Tasks : FetchOnce(t, ItemOf(t))
    \/ FetchAfter(TaskX, ItemX, ItemZ)
    \/ \E t \in Tasks : FetchTiers(t, t = TaskY)
    \/ \E t \in Tasks : SlotTimer(t)
    \/ \E t \in Tasks : InvokeFn(t)
    \/ \E t \in Tasks : \E o \in ItemOutcomes(t, lim[t]) : FnSettle(t, o)
    \/ \E t \in Tasks : BackoffTimer(t)
    \/ \E t \in Tasks : FetchApiDone(t)
    \/ \E t \in Tasks : FetchPageDone(t)
    \/ \E t \in Tasks : FetchReturn(t)
    \/ StorageWrite
    \/ TimePasses

FairItems ==
    /\ WF_vars(FetchTiers(TaskY, TRUE))
    /\ WF_vars(SlotTimer(TaskY))
    /\ WF_vars(InvokeFn(TaskY))
    /\ WF_vars(FnSettle(TaskY, "ok"))
    /\ WF_vars(FetchApiDone(TaskY))
    /\ WF_vars(FetchReturn(TaskY))
    /\ WF_vars(StorageWrite)
    /\ WF_vars(TimePasses)

SpecItems == Init /\ [][NextItems]_vars /\ FairItems

\* Two cards enhanced at once, one fetchProductData call each; the primary
\* endpoint answers each request with the data or with a retryable error,
\* as it pleases. Every request is answered, every timer fires, every
\* GM.setValue is acknowledged, and a call that can go on does.
SettleOutcomes(l) == IF l = "api" THEN {"ok"} \cup Retryable ELSE PageOutcomes

NextSettle ==
    \/ \E t \in Tasks : FetchOnce(t, ItemOf(t))
    \/ \E t \in Tasks, card \in BOOLEAN : FetchTiers(t, card)
    \/ \E t \in Tasks : SlotTimer(t)
    \/ \E t \in Tasks : InvokeFn(t)
    \/ \E t \in Tasks : \E o \in SettleOutcomes(lim[t]) : FnSettle(t, o)
    \/ \E t \in Tasks : BackoffTimer(t)
    \/ \E t \in Tasks : FetchApiDone(t)
    \/ \E t \in Tasks : FetchPageDone(t)
    \/ \E t \in Tasks : FetchReturn(t)
    \/ StorageWrite
    \/ TimePasses

FairSettle ==
    /\ \A t \in Tasks :
          /\ WF_vars(\E card \in BOOLEAN : FetchTiers(t, card))
          /\ WF_vars(SlotTimer(t))
          /\ WF_vars(InvokeFn(t))
          /\ WF_vars(\E o \in SettleOutcomes(lim[t]) : FnSettle(t, o))
          /\ WF_vars(BackoffTimer(t))
          /\ WF_vars(FetchApiDone(t))
          /\ WF_vars(FetchPageDone(t))
          /\ WF_vars(FetchReturn(t))
    /\ WF_vars(StorageWrite)
    /\ WF_vars(TimePasses)

SpecSettle == Init /\ [][NextSettle]_vars /\ FairSettle

\* One fetchProductData call at a time, whose primary endpoint answers with the
\* validation challenge or with the data; the backoff sleeps are recorded
ChallengeOutcomes(l) ==
    IF l = "api" THEN {"ok", "FAIL_SYS_USER_VALIDATE"} ELSE PageOutcomes

InitChallenge ==
    InitLimiters /\ InitCacheManager /\ InitFetch /\ calc = NoCalc /\ follow = TRUE /\ ~stale.on

NextChallenge ==
    \/ \E t \in FetchTasks, p \in FetchProducts : FetchStart(t, p)
    \/ \E t \in FetchTasks, card \in BOOLEAN : FetchTiers(t, card)
    \/ \E t \in FetchTasks : SlotTimer(t)
    \/ \E t \in FetchTasks : InvokeFn(t)
    \/ \E t \in FetchTasks : \E o \in ChallengeOutcomes(lim[t]) : FnSettle(t, o)
    \/ \E t \in FetchTasks : BackoffTimer(t)
    \/ \E t \in FetchTasks : FetchApiDone(t)
    \/ \E t \in FetchTasks : FetchPageDone(t)
    \/ \E t \in FetchTasks : FetchReturn(t)
    \/ StorageWrite
    \/ TimePasses

SpecChallenge == InitChallenge /\ [][NextChallenge]_vars

\* -------------------------------------------------- PriceContextCalculator
\* Amounts are whole numbers of 1/Unit of the currency unit, so that the half
\* of a sum of whole prices and three tenths of it are exact, as they are in
\* the script's floating point for such prices
Unit == 2 * 10

\* parseFloat found no number
NaN == 0 - 1

\* if (price): neither 0 nor NaN
Truthy(n) == n # 0 /\ n # NaN

\* prices.sort((a, b) => a - b), as an insertion sort
RECURSIVE InsertAscending(_, _)
InsertAscending(s, x) ==
    IF s = <<>> THEN <<x>>
    ELSE IF x < Head(s) THEN <<x>> \o s
    ELSE <<Head(s)>> \o InsertAscending(Tail(s), x)

RECURSIVE SortAscending(_)
SortAscending(s) ==
    IF s = <<>> THEN <<>>
    ELSE InsertAscending(SortAscending(SubSeq(s, 1, Len(s) - 1)), s[Len(s)])

\* slip: the upper of the two middle elements of a list of even length
calculateMedian_upperMiddle(prices) == prices[Len(prices) \div 2 + 1]

\* calculateMedian(prices); the script's mid is the index before mid + 1 here
calculateMedian(prices) ==
    LET mid == Len(prices) \div 2 IN
    IF Len(prices) % 2 = 0
    THEN (prices[mid] + prices[mid + 1]) \div 2
    ELSE prices[mid + 1]

\* Math.min(...prices), Math.max(...prices)
MathMin(prices) == CHOOSE x \in {prices[i] : i \in 1..Len(prices)} :
                      \A i \in 1..Len(prices) : x <= prices[i]
MathMax(prices) == CHOOSE x \in {prices[i] : i \in 1..Len(prices)} :
                      \A i \in 1..Len(prices) : x >= prices[i]

\* calculatePageContext returned null
NoContext == [isNull |-> TRUE, median |-> 0, lowerBound |-> 0, upperBound |-> 0,
              min |-> 0, max |-> 0, clusters |-> <<>>]

\* findPriceClusters(prices), prices ascending: five ranges of a fifth of
\* prices[last] - prices[0] each; a range with prices in it gives a cluster,
\* of which centerPrice and count are kept (variance, a square root, is not)
findPriceClusters(prices) ==
    LET range == prices[Len(prices)] - prices[1]
        step == range \div 5
        cluster(i) ==
            LET min == prices[1] + step * i
                max == prices[1] + step * (i + 1)
            IN [centerPrice |-> (min + max) \div 2,
                count |-> Len(SelectSeq(prices, LAMBDA p : p >= min /\ p < max))]
    IN SelectSeq([i \in 1..5 |-> cluster(i - 1)], LAMBDA c : c.count > 0)

\* the prices calculatePageContext collects from the cards' price texts, sorted
PagePrices(cards) == SortAscending(SelectSeq(cards, Truthy))

\* calculatePageContext(productCards); cards holds what extractPriceValue gave
\* for each card's price text (a card without price element adds nothing, as
\* a card whose price is 0)
calculatePageContext(cards) ==
    LET prices == PagePrices(cards) IN
    IF Len(prices) = 0 THEN NoContext
    ELSE LET median == calculateMedian(prices)
             threshold == (median * 3) \div 10
         IN [isNull |-> FALSE, median |-> median,
             lowerBound |-> median - threshold, upperBound |-> median + threshold,
             min |-> MathMin(prices), max |-> MathMax(prices),
             clusters |-> findPriceClusters(prices)]

\* calculatePageContext examined on up to MaxCards cards
CardPrices == {NaN, 0, 10 * Unit, 20 * Unit, 30 * Unit, 40 * Unit}

InitMedian ==
    /\ InitLimiters /\ InitCacheManager /\ InitFetch /\ follow = FALSE /\ ~stale.on
    /\ calc \in {[fn |-> "calculatePageContext", cards |-> c, called |-> FALSE,
                  prices |-> <<>>, ret |-> NoContext] :
                    c \in UNION {[1..n -> CardPrices] : n \in 0..MaxCards}}

CalculatePageContext ==
    /\ calc.fn = "calculatePageContext" /\ ~calc.called
    /\ calc' = [calc EXCEPT !.called = TRUE,
                            !.prices = PagePrices(calc.cards),
                            !.ret = calculatePageContext(calc.cards)]
    /\ UNCHANGED progVars

NextMedian == CalculatePageContext

SpecMedian == InitMedian /\ [][NextMedian]_vars

\* a variant as calculateVariantScore reads it: price.discountedValue and
\* isMainProduct; id is the position of its SKU in the product's list
ScoredPrices == {5 * Unit, 38 * Unit, 45 * Unit, 52 * Unit}

ScoredVariants == [discountedValue : ScoredPrices, isMainProduct : BOOLEAN]

\* variants[0] of an empty list
NoVariant == [id |-> 0, discountedValue |-> 0, isMainProduct |-> FALSE, num |-> 0, den |-> 0]

\* a variant as it is, without a score field
Unscored(v, i) == [id |-> i, discountedValue |-> v.discountedValue,
                   isMainProduct |-> v.isMainProduct, num |-> 0, den |-> 0]

Abs(x) == IF x < 0 THEN 0 - x ELSE x

\* calculateVariantScore(variant, context), as the fraction num / den:
\* distanceScore is Unit / (|price - median| + Unit) in currency units,
\* inRange is 3/2 or 1/2, productTypeMultiplier 13/10 or 7/10
calculateVariantScore(variant, context) ==
    LET price == variant.discountedValue
        inRange == IF price >= context.lowerBound /\ price <= context.upperBound THEN 3 ELSE 1
        productTypeMultiplier == IF variant.isMainProduct THEN 13 ELSE 7
    IN [num |-> Unit * inRange * productTypeMultiplier,
        den |-> (Abs(price - context.median) + Unit) * 2 * 10]

\* the sign of (a, b) => b.score - a.score
CompareScores(a, b) == b.num * a.den - a.num * b.den

\* slip: an element also moves in front of the elements it compares equal to
ComesBefore_orEqual(x, e) == CompareScores(e, x) >= 0

\* the sort is stable: x moves in front of e only if the comparator puts e after x
ComesBefore(x, e) == CompareScores(e, x) > 0

\* one step of the sort: x is put into a list already in order
RECURSIVE InsertByScore(_, _)
InsertByScore(s, x) ==
    IF s = <<>> THEN <<x>>
    ELSE IF ComesBefore(x, Head(s)) THEN <<x>> \o s
    ELSE <<Head(s)>> \o InsertByScore(Tail(s), x)

\* .sort((a, b) => b.score - a.score)
RECURSIVE SortByScore(_)
SortByScore(s) ==
    IF s = <<>> THEN <<>>
    ELSE InsertByScore(SortByScore(SubSeq(s, 1, Len(s) - 1)), s[Len(s)])

\* findBestMatchingVariant(variants, context)
findBestMatchingVariant(variants, context) ==
    IF context.isNull \/ Len(variants) = 0
    THEN IF Len(variants) = 0 THEN NoVariant ELSE Unscored(variants[1], 1)
    ELSE LET scored == [i \in 1..Len(variants) |->
                          LET score == calculateVariantScore(variants[i], context)
                          IN [Unscored(variants[i], i) EXCEPT !.num = score.num,
                                                              !.den = score.den]]
         IN SortByScore(scored)[1]

\* the contexts findBestMatchingVariant is examined with: none, and the
\* contexts of pages whose median price is 44 and 40
ScoredContexts == {NoContext, calculatePageContext(<<44 * Unit>>),
                   calculatePageContext(<<40 * Unit>>)}

InitBest ==
    /\ InitLimiters /\ InitCacheManager /\ InitFetch /\ follow = FALSE /\ ~stale.on
    /\ calc \in {[fn |-> "findBestMatchingVariant", variants |-> v, context |-> c,
                  called |-> FALSE, ret |-> NoVariant] :
                    v \in UNION {[1..n -> ScoredVariants] : n \in 0..MaxVariants},
                    c \in ScoredContexts}

FindBestMatchingVariant ==
    /\ calc.fn = "findBestMatchingVariant" /\ ~calc.called
    /\ calc' = [calc EXCEPT !.called = TRUE,
                            !.ret = findBestMatchingVariant(calc.variants, calc.context)]
    /\ UNCHANGED progVars

NextBest == FindBestMatchingVariant

SpecBest == InitBest /\ [][NextBest]_vars

\* ------------------------------------------------ parsing of product data
\* A JavaScript object is the function from its own enumerable property names
\* to their values; of a variant the model keeps id, name, price.value,
\* price.discountedValue, shipping.cost and isMainProduct

\* a property that is absent, or whose value is not of type number
Undefined == 0 - 2

\* a || b on numbers
OrElse(a, b) == IF Truthy(a) /\ a # Undefined THEN a ELSE b

accessoryKeywords == {"case", "cover", "protector", "cable", "adapter", "charger",
                      "holder", "stand", "accessory", "kit", "pedal", "spare",
                      "replacement", "tool", "bag", "box"}

\* skuAttr values, as the parts skuAttr.split('#') gives; <<"">> is the split
\* of an absent or empty skuAttr
SkuAttrs == {<<"14:193", "Black">>,
             <<"14:193", "Red Case">>,
             <<"14:193", "Black;5:361386", "With Cable">>,
             <<"">>}

\* toLowerCase on the texts of SkuAttrs
toLowerCase(text) ==
    CASE text = "Black" -> "black"
      [] text = "Red Case" -> "red case"
      [] text = "Black;5:361386" -> "black;5:361386"
      [] text = "With Cable" -> "with cable"
      [] OTHER -> text

\* text.includes(keyword) on those texts and the accessory keywords
includes(text, keyword) ==
    <<text, keyword>> \in {<<"red case", "case">>, <<"with cable", "cable">>}

isAccessory(name) == \E keyword \in accessoryKeywords : includes(name, keyword)

\* getSkuName(sku): parts[1] || 'Default'
getSkuName(sku) ==
    IF Len(sku.skuAttr) >= 2 /\ sku.skuAttr[2] # "" THEN sku.skuAttr[2] ELSE "Default"

\* isMainProductBySku(sku) looks for the keywords in the whole lower-cased
\* skuAttr; no keyword holds a '#', so one is in the skuAttr exactly if it is
\* in one of its parts
isMainProductBySku(sku) ==
    ~\E i \in 1..Len(sku.skuAttr) : isAccessory(toLowerCase(sku.skuAttr[i]))

\* typeof price === 'number' && !isNaN(price)
IsUsableNumber(price) == price # Undefined /\ price # NaN

\* extractDefaultPrice(result); paths holds the values found at the five paths
extractDefaultPrice(result) ==
    IF \E i \in 1..Len(result.paths) : IsUsableNumber(result.paths[i])
    THEN result.paths[CHOOSE i \in 1..Len(result.paths) :
                        /\ IsUsableNumber(result.paths[i])
                        /\ \A j \in 1..(i - 1) : ~IsUsableNumber(result.paths[j])]
    ELSE 0

createDefaultVariant(result) ==
    LET defaultPrice == extractDefaultPrice(result) IN
    [id |-> "default", name |-> "Default",
     price |-> [value |-> defaultPrice, discountedValue |-> defaultPrice],
     shipping |-> [cost |-> 0],
     isMainProduct |-> TRUE]

\* shippingData.deliveryLayoutInfo?.[0] || {}, then .bizData || {}, of which
\* displayAmount is kept; deliveryLayoutInfo holds the displayAmount of each
\* delivery option of the response
FirstBizData(result) ==
    IF Len(result.deliveryLayoutInfo) > 0 THEN result.deliveryLayoutInfo[1] ELSE Undefined

\* extractShippingInfo(shippingBizData, productId)
extractShippingInfo(result) == [cost |-> OrElse(FirstBizData(result), 0)]

\* createSingleVariant(result, productId) returns an array that holds the
\* variant: an object whose one enumerable property is "0"; activityPrice
\* stands for priceInfo.activityPrice || priceInfo.discountPrice
createSingleVariant(result) ==
    LET originalPrice == extractDefaultPrice(result)
        discountedPrice == OrElse(result.activityPrice, originalPrice)
    IN [k \in {"0"} |->
          [id |-> "default", name |-> "Default",
           price |-> [value |-> originalPrice, discountedValue |-> discountedPrice],
           shipping |-> extractShippingInfo(result),
           isMainProduct |-> TRUE]]

\* ({...variant, shipping: {...baseShippingInfo, ...}})
WithShipping(variant, baseShippingInfo) ==
    [k \in (DOMAIN variant) \cup {"shipping"} |->
        IF k = "shipping" THEN baseShippingInfo ELSE variant[k]]

\* addShippingInfo(variants, baseShippingInfo, ...)
addShippingInfo(variants, baseShippingInfo) ==
    [i \in 1..Len(variants) |-> WithShipping(variants[i], baseShippingInfo)]

\* an entry of a SKU list that is null: reading a property of it throws
NullSku == [isNull |-> TRUE]

\* slip: an empty list of variants is left empty
OrDefault_leftEmpty(variants, default) == variants

\* variants.length > 0 ? variants : [default]
OrDefault(variants, default) == IF Len(variants) > 0 THEN variants ELSE <<default>>

\* a product: what parseProductData and extractProductDataFromHTML return
ParsedProduct(variants) == [isNull |-> FALSE, productId |-> "p1", variants |-> variants]
NullProduct == [isNull |-> TRUE]

\* the variant parseProductData makes of an entry of skuPaths, without shipping
ApiVariant(sku) ==
    [id |-> sku.skuIdStr, name |-> getSkuName(sku),
     price |-> [value |-> OrElse(sku.value, 0), discountedValue |-> OrElse(sku.value, 0)],
     isMainProduct |-> isMainProductBySku(sku)]

\* parseProductData(data); fail: data.ret[0] starts with FAIL_
parseProductData(data) ==
    IF data.fail THEN ParsedProduct(<<createDefaultVariant(data)>>)
    ELSE IF \E i \in 1..Len(data.skuPaths) : data.skuPaths[i] = NullSku
    THEN ParsedProduct(OrDefault(<<createDefaultVariant(data)>>, createDefaultVariant(data)))
    ELSE LET variants == IF Len(data.skuPaths) > 0
                         THEN [i \in 1..Len(data.skuPaths) |-> ApiVariant(data.skuPaths[i])]
                         ELSE <<createSingleVariant(data)>>
             baseShippingInfo == extractShippingInfo(data)
         IN ParsedProduct(OrDefault(addShippingInfo(variants, baseShippingInfo),
                                    createDefaultVariant(data)))

\* the product fetchProductData builds from the card of the result page
BasicProduct(card) ==
    ParsedProduct(<<[id |-> "default", name |-> "Default",
                     price |-> [value |-> OrElse(card.original, card.current),
                                discountedValue |-> card.current],
                     shipping |-> [cost |-> OrElse(card.shipping, 0)],
                     isMainProduct |-> TRUE]>>)

\* fetchProductData after a successful call: the variants of the card are
\* taken when the parsed product has none
MergeBasic(fullProductData, hasCard, basicData) ==
    IF hasCard
    THEN [fullProductData EXCEPT
            !.variants = IF Len(@) > 0 THEN @ ELSE basicData.variants]
    ELSE fullProductData

\* the variant extractProductDataFromHTML makes of an entry of the SKU list
PageVariant(sku) ==
    [id |-> sku.skuIdStr,
     name |-> IF Len(sku.skuAttr) >= 2 /\ sku.skuAttr[2] # "" THEN sku.skuAttr[2]
              ELSE "Default",
     price |-> [value |-> OrElse(sku.value, 0), discountedValue |-> OrElse(sku.value, 0)],
     shipping |-> [cost |-> 0],
     isMainProduct |-> TRUE]

\* extractProductDataFromHTML(html, productId); found: one of the four places
\* of the page held the product data; formatedPrice: parseFloat of the
\* price text of the page
extractProductDataFromHTML(page) ==
    IF ~page.found THEN NullProduct
    ELSE IF \E i \in 1..Len(page.skuList) : page.skuList[i] = NullSku THEN NullProduct
    ELSE LET priceValue == OrElse(page.formatedPrice, 0) IN
         ParsedProduct(OrDefault([i \in 1..Len(page.skuList) |-> PageVariant(page.skuList[i])],
                                 [id |-> "default", name |-> "Default",
                                  price |-> [value |-> priceValue,
                                             discountedValue |-> priceValue],
                                  shipping |-> [cost |-> 0],
                                  isMainProduct |-> TRUE]))

\* the inputs of the parsers
SkuShapes == {[skuAttr |-> a, value |-> v] : a \in SkuAttrs, v \in {Undefined, 25 * Unit}}
                \cup {NullSku}

SkuId(i) == ToString(12000 + i)

\* the SKU lists of at most max entries
SkuLists(max) ==
    {[i \in 1..Len(shapes) |-> IF shapes[i] = NullSku THEN NullSku
                     ELSE [skuIdStr |-> SkuId(i), skuAttr |-> shapes[i].skuAttr,
                           value |-> shapes[i].value]] :
        shapes \in UNION {[1..n -> SkuShapes] : n \in 0..max}}

\* what the five paths of extractDefaultPrice hold: path i holds its own
\* number, 0 for the first, or none (NaN at the second)
PathPrice(i) == IF i = 1 THEN 0 ELSE (10 + i) * Unit

PricePaths ==
    {[i \in 1..5 |-> IF i \in present THEN PathPrice(i)
                     ELSE IF i = 2 THEN NaN ELSE Undefined] : present \in SUBSET (1..5)}

\* the delivery options of a response: none, one, or a dearer one first
DeliveryLayouts == {<<>>, <<3 * Unit>>, <<3 * Unit, 1 * Unit>>}

ApiResponses(max) ==
    {[fail |-> f, skuPaths |-> skus, paths |-> paths, activityPrice |-> a,
      deliveryLayoutInfo |-> d] :
        f \in BOOLEAN, skus \in SkuLists(max), paths \in PricePaths,
        a \in {Undefined, 9 * Unit}, d \in DeliveryLayouts}

Pages(max) ==
    {[found |-> f, skuList |-> skus, formatedPrice |-> price] :
        f \in BOOLEAN, skus \in SkuLists(max), price \in {NaN, 30 * Unit}}

Cards ==
    {[original |-> o, current |-> c, shipping |-> sh] :
        o \in {Undefined, 50 * Unit}, c \in {Undefined, 0, 40 * Unit},
        sh \in {Undefined, 3 * Unit}}

\* the card of the product when the response of the API is parsed
TheCard == [original |-> 50 * Unit, current |-> 40 * Unit, shipping |-> Undefined]

InitParse ==
    /\ InitLimiters /\ InitCacheManager /\ InitFetch /\ follow = FALSE /\ ~stale.on
    /\ calc \in {[fn |-> "parseProductData", data |-> r, hasCard |-> h, called |-> FALSE,
                  ret |-> NullProduct, merged |-> NullProduct] :
                    r \in ApiResponses(MaxSkus), h \in BOOLEAN}
               \cup {[fn |-> "extractProductDataFromHTML", data |-> page, called |-> FALSE,
                      ret |-> NullProduct] : page \in Pages(MaxSkus)}
               \cup {[fn |-> "basic", data |-> card, called |-> FALSE,
                      ret |-> NullProduct] : card \in Cards}

ParseProductData ==
    /\ calc.fn = "parseProductData" /\ ~calc.called
    /\ LET fullProductData == parseProductData(calc.data) IN
       calc' = [calc EXCEPT !.called = TRUE,
                            !.ret = fullProductData,
                            !.merged = MergeBasic(fullProductData, calc.hasCard,
                                                  BasicProduct(TheCard))]
    /\ UNCHANGED progVars

ExtractProductDataFromHTML ==
    /\ calc.fn = "extractProductDataFromHTML" /\ ~calc.called
    /\ calc' = [calc EXCEPT !.called = TRUE, !.ret = extractProductDataFromHTML(calc.data)]
    /\ UNCHANGED progVars

BasicFromCard ==
    /\ calc.fn = "basic" /\ ~calc.called
    /\ calc' = [calc EXCEPT !.called = TRUE, !.ret = BasicProduct(calc.data)]
    /\ UNCHANGED progVars

NextParse == ParseProductData \/ ExtractProductDataFromHTML \/ BasicFromCard

SpecParse == InitParse /\ [][NextParse]_vars

\* ------------------------------------------------------------------ claims

\* C1: on every RateLimiter instance and under every interleaving of callers,
\* the admission recorded maxRequests admissions after another one is recorded
\* at least timeWindow (1000 ms) later: with 2 per window, the 3rd admission is
\* at least 1000 ms after the 1st, the 4th at least 1000 ms after the 2nd, ...
C1_CapNeverExceeded ==
    \A l \in Limiters : lastGap[l] # NoTime => lastGap[l] >= 1000

\* C1 witness: on the instance with 2 per window, a task that had to wait has
\* just been admitted, a full window after the admission two before it while
\* the admission right before it is still inside the window
C1_Witness ==
    /\ lastGap["api"] = 1000
    /\ requests["api"] = <<0 - 500, 0>>
    /\ \E t \in Tasks : pc[t] = "admitted" /\ lim[t] = "api"

\* C4: a failure with FAIL_SYS_ILLEGAL_ACCESS or FAIL_SYS_USER_VALIDATE is
\* propagated without sleeping when the backoff has reached 32000 ms; otherwise
\* the task sleeps for the current backoff, and on waking the backoff becomes
\* min(2 * backoff, 32000) and the loop is retried (waitForSlot again)
C4_BackoffPolicy ==
    [][\A t \in Tasks :
        LET l == lim[t] IN
        /\ (pc[t] = "inflight" /\ pc'[t] = "ewbThrown"
               /\ err'[t] \in {"FAIL_SYS_ILLEGAL_ACCESS", "FAIL_SYS_USER_VALIDATE"})
             => (backoffTime[l] >= 32000 /\ backoffTime' = backoffTime /\ wake' = wake)
        /\ (pc[t] = "inflight" /\ pc'[t] = "backoffSleep")
             => (backoffTime[l] < 32000 /\ backoffTime' = backoffTime
                 /\ wake'[t] = backoffTime[l])
        /\ (pc[t] = "backoffSleep" /\ pc'[t] # "backoffSleep")
             => (wake[t] <= 0
                 /\ backoffTime'[l] = Min(2 * backoffTime[l], 32000)
                 /\ pc'[t] \in {"admitted", "slotWait"})
    ]_vars

\* C4 witness: a task has given up on a retryable failure at the maximum
\* backoff while another task is asleep in a backoff
C4_Witness ==
    \E t, u \in Tasks :
        /\ pc[t] = "ewbThrown" /\ err[t] = "FAIL_SYS_USER_VALIDATE"
        /\ backoffTime[lim[t]] = 32000
        /\ pc[u] = "backoffSleep"

\* C5 (amended): with initial backoff 1000 ms and the constructor's maximum
\* of 32000 ms, a single task whose action fails retryably 4 times and then
\* succeeds has slept exactly 1000, 2000, 4000, 8000 ms, and the first
\* retryable failure after a success sleeps 1000 ms
C5_BackoffSequence ==
    \A l \in Limiters :
        /\ Len(lastRun[l]) = 4 => lastRun[l] = <<1000, 2000, 4000, 8000>>
        /\ (succ[l] /\ Len(run[l]) >= 1) => run[l][1] = 1000

\* C5 witness: four sleeps, a success, and the next failure asleep for 1000 ms
C5_Witness ==
    \E l \in Limiters :
        /\ lastRun[l] = <<1000, 2000, 4000, 8000>>
        /\ run[l] = <<1000>>
        /\ pc[1] = "backoffSleep" /\ lim[1] = l

\* C5 as stated: the same sequence, with 8000 ms the maximum the backoff reaches
C5_MaxBackoff8000 ==
    \A l \in Limiters :
        /\ Len(lastRun[l]) = 4 => lastRun[l] = <<1000, 2000, 4000, 8000>>
        /\ (succ[l] /\ Len(run[l]) >= 1) => run[l][1] = 1000
        /\ backoffTime[l] <= 8000

\* C6: whatever CacheManager calls are made (initialize, get, set, clear, the
\* disable switch), the store never holds more than config.maxEntries entries
C6_SizeBounded == Len(cache) <= maxEntries

\* C6 witness: a set of a new key on a full store has been carried out
C6_Witness ==
    /\ ev.op = "set" /\ ~ev.disabled /\ ~ev.existed /\ ev.size = maxEntries
    /\ Len(cache) = maxEntries

\* C7: set of an absent key on a full store removes exactly one entry, the one
\* inserted earliest, even when that entry is the one get returned last; set of
\* a present key removes nothing; get never changes the eviction order
C7_EvictsOldestInserted ==
    /\ MapKeys(cache) = insOrder
    /\ (ev.op = "set" /\ ~ev.disabled) =>
          /\ (~ev.existed /\ ev.size >= maxEntries) => ev.removed = {ev.oldest}
          /\ (~ev.existed /\ ev.size < maxEntries) => ev.removed = {}
          /\ ev.existed => ev.removed = {}

\* C7 witness: the entry evicted by a set on a full store is the one that was
\* read most recently
C7_Witness ==
    /\ ev.op = "set" /\ ~ev.disabled /\ ~ev.existed /\ ev.size >= maxEntries
    /\ ev.readLast # NoKey
    /\ ev.removed = {ev.readLast}

\* C8: with caching enabled, get of an entry whose expiresAt has passed
\* returns null, removes the entry from the store, and the snapshot it saves
\* (and that is then persisted) no longer holds the key; get never returns the
\* data of an entry whose expiresAt has passed
C8_ExpiredGet ==
    (ev.op = "get" /\ ~ev.disabled) =>
        /\ (ev.found /\ ev.exp < 0) =>
              /\ ev.ret = NoData
              /\ ev.key \notin KeySet(cache)
              /\ ev.saved
              /\ ev.key \notin ev.savedKeys
              /\ saveQueue = <<>> => ev.key \notin KeySet(storage.snap)
        /\ ev.ret # NoData => (ev.found /\ ev.exp >= 0)

\* C8 witness: an expired entry has been read, and the snapshot persisted by
\* that get holds the other entry only
C8_Witness ==
    /\ ev.op = "get" /\ ~ev.disabled /\ ev.found /\ ev.exp < 0
    /\ saveQueue = <<>>
    /\ storage.present /\ Len(storage.snap) = 1

\* C9: once clear() has completed, the store is empty and the persisted
\* snapshot holds no entry, whether or not the cache-disabled flag is set
C9_ClearPersistsEmpty ==
    (ev.op = "clear" /\ saveQueue = <<>>) => (cache = <<>> /\ storage.snap = <<>>)

\* C2: a fetchProductData call whose primary tier failed, whose fallback page
\* fetch produced no data and which found no card to build basic data from
\* ends by throwing, and what it throws is the primary tier's error
C2_RejectsWithPrimaryError ==
    \A t \in Tasks :
        (fpc[t] = "done" /\ apiError[t] # "none"
            /\ pageData[t] = NoData /\ productData[t] = NoData)
        => (returned[t].how = "threw" /\ returned[t].error = apiError[t])

\* C3: a fetchProductData call whose primary tier failed returns the Product
\* of the fallback page when the page fetch produced one, and the basic Product
\* of the card only when the page fetch produced none
C3_FallbackPageDataReturned ==
    \A t \in Tasks :
        (fpc[t] = "done" /\ apiError[t] # "none") =>
            /\ pageData[t] # NoData => returned[t].data = pageData[t]
            /\ returned[t].data.from = "basic" => pageData[t] = NoData

\* C10: a get made while the cache-disabled flag is set returns null, and
\* neither it nor a set made while the flag is set changes the store or issues
\* a save; the fetchProductData call that made such a get does not return a
\* cached Product, and does not end before its primary tier has run
C10_DisabledBypass ==
    /\ (ev.op = "get" /\ ev.disabled) => (ev.ret = NoData /\ ~ev.changed /\ ~ev.saved)
    /\ (ev.op = "set" /\ ev.disabled) => (~ev.changed /\ ~ev.saved)
    /\ \A t \in Tasks :
          (ev.op = "get" /\ ev.disabled /\ ev.by = t) =>
              /\ returned[t].how # "cached"
              /\ fpc[t] \in {"cacheGet", "api", "page", "done"}
              /\ fpc[t] = "done" => apiError[t] # "none"

\* C10 witness: a fetchProductData call asked the cache for a key the store
\* holds while the flag was set, and has gone on to its primary tier
C10_Witness ==
    /\ ev.op = "get" /\ ev.disabled /\ ev.found /\ ev.by = 1
    /\ MapHas(cache, ev.key)
    /\ fpc[1] = "api" /\ pc[1] = "inflight"

C12_NullUntilReload ==
    /\ (ev.op = "get" /\ ev.disabled) => ev.ret = NoData
    /\ (ev.op = "get" /\ stale.of[ev.key] = "cleared") => ev.ret = NoData

\* C12 witness: the cache was disabled and enabled again, the stored snapshot
\* holds an unexpired entry for k, and get(k), made with the flag unset, found
\* nothing in the store
C12_Witness ==
    /\ ev.op = "get" /\ ~ev.disabled /\ ~ev.found /\ ev.ret = NoData
    /\ stale.of[ev.key] = "cleared"
    /\ MapHas(storage.snap, ev.key)
    /\ ~IsExpired(MapGet(storage.snap, ev.key), now)

\* C12 (as stated): from the moment the cache is disabled while the stored
\* snapshot holds key k, get(k) returns null until initialize() has reloaded
\* the snapshot
C12_NullFromDisabling ==
    (ev.op = "get" /\ stale.of[ev.key] # "none") => ev.ret = NoData

\* C13 (as amended): with caching enabled, a fetchProductData call that goes
\* on to cache a Product P stores P under 'product_<id>' and issues the save
\* of the store holding it; a call returns a fetched Product only from its
\* await of that set, after the save it issued has been acknowledged, and the
\* Product it returns is the one it stored
C13_SetCompletesBeforeReturn ==
    [][\A t \in Tasks :
        LET key == CacheKey(productId[t]) IN
        /\ (fpc[t] \in {"api", "page"} /\ fpc'[t] = "cacheSet" /\ ~isCacheDisabled) =>
              /\ fetchedData'[t] # NoData
              /\ MapHas(cache', key)
              /\ MapGet(cache', key).data = fetchedData'[t]
              /\ \E i \in 1..Len(saveQueue') :
                    saveQueue'[i].by = t /\ saveQueue'[i].snap = cache'
        /\ (returned'[t].how = "value" /\ returned'[t] # returned[t]) =>
              /\ fpc[t] = "cacheSet" /\ fpc'[t] = "done"
              /\ returned'[t].data = fetchedData[t]
              /\ \A i \in 1..Len(saveQueue) : saveQueue[i].by # t
              /\ storage.present]_vars

\* C13 witness: a call has returned the Product of the fallback page, its save
\* has been carried out, and store and stored snapshot hold that Product
C13_Witness ==
    /\ fpc[1] = "done" /\ returned[1].how = "value" /\ returned[1].data.from = "page"
    /\ saveQueue = <<>>
    /\ MapHas(cache, CacheKey(productId[1]))
    /\ MapGet(cache, CacheKey(productId[1])).data = returned[1].data
    /\ MapHas(storage.snap, CacheKey(productId[1]))
    /\ MapGet(storage.snap, CacheKey(productId[1])).data = returned[1].data

\* C13 (as stated): when the save a call awaits is acknowledged, so that the
\* call returns its Product P to the caller, the entry the cache holds under
\* 'product_<id>' is P (the entry is there unless it has expired meanwhile)
C13_CacheHoldsReturned ==
    [][\A t \in Tasks :
        LET key == CacheKey(productId[t]) IN
        (/\ fpc[t] = "cacheSet"
         /\ \E i \in 1..Len(saveQueue) : saveQueue[i].by = t
         /\ \A i \in 1..Len(saveQueue') : saveQueue'[i].by # t)
        => (MapHas(cache', key) => MapGet(cache', key).data = fetchedData[t])]_vars

\* C14: the step of a fetchProductData call in which get finds the Product
\* ends the call with that Product, and changes nothing of either RateLimiter
\* (no admission, no timer, no request sent, no backoff), nothing of the store
\* and nothing of what is saved or to be saved
C14_HitReturnsAtOnce ==
    [][\A t \in Tasks :
        (/\ ev'.op = "get" /\ ev'.by = t /\ ev'.ret # NoData
         /\ (ev' # ev \/ returned'[t] # returned[t]))
        => /\ fpc'[t] = "done"
           /\ returned'[t] = [how |-> "cached", data |-> ev'.ret, error |-> "none"]
           /\ ev'.ret = MapGet(cache, ev'.key).data
           /\ requests' = requests /\ backoffTime' = backoffTime
           /\ pc' = pc /\ wake' = wake /\ lim' = lim
           /\ cache' = cache /\ saveQueue' = saveQueue /\ storage' = storage]_vars

\* C14 witness: a call has returned the cached Product while the backoff of
\* the primary tier's limiter stands above its initial value
C14_Witness ==
    /\ fpc[1] = "done" /\ returned[1].how = "cached"
    /\ ev.op = "get" /\ ev.by = 1 /\ ev.ret = returned[1].data
    /\ backoffTime["api"] > initialBackoffTime

\* C15: a fetchProductData call whose primary tier ends in success, after
\* however many validation challenges the backoff allowed, stores the Product
\* parsed from the API reply under 'product_<id>' without entering the fallback
\* tier, and returns that Product with the store holding it; the fallback tier
\* is entered after a challenge only when the backoff had reached its maximum
C15_ChallengeThenSuccess ==
    [][\A t \in Tasks :
        LET key == CacheKey(productId[t])
            api == Product(productId[t], "api")
        IN
        /\ (fpc[t] = "api" /\ pc[t] = "ewbReturned" /\ fpc'[t] # "api") =>
              /\ fpc'[t] = "cacheSet" /\ fetchedData'[t] = api
              /\ lim'[t] = "api" /\ requests'["page"] = requests["page"]
              /\ ~isCacheDisabled => (MapHas(cache', key) /\ MapGet(cache', key).data = api)
        /\ (fpc[t] = "cacheSet" /\ fpc'[t] = "done" /\ apiError[t] = "none") =>
              /\ returned'[t] = [how |-> "value", data |-> api, error |-> "none"]
              /\ pageData[t] = NoData
              /\ MapHas(cache', key) /\ MapGet(cache', key).data = api
        /\ (fpc[t] = "api" /\ fpc'[t] = "page") =>
              /\ pc[t] = "ewbThrown"
              /\ err[t] \in Retryable => backoffTime["api"] >= maxBackoffTime]_vars

\* C15 witness: the primary endpoint answered the challenge twice (sleeps of
\* 1000 and 2000 ms) and then the data; the call has returned the API Product,
\* the store holds it, and the fallback limiter has admitted nothing
C15_Witness ==
    /\ lastRun["api"] = <<1000, 2000>> /\ run["api"] = <<>>
    /\ fpc[1] = "done" /\ returned[1].how = "value" /\ returned[1].data.from = "api"
    /\ MapGet(cache, CacheKey(productId[1])).data = returned[1].data
    /\ recent["page"] = <<>>

\* C16: a fetchProductData call whose primary tier threw (a rate-limit or
\* challenge error only once the backoff had reached its maximum), whose
\* fallback page fetch gave no data, and which had built basic data from the
\* card, hands that basic Product to the cache (which stores it unless the
\* cache is disabled) and then returns it; it neither throws nor returns null
C16_BasicAfterBothFail ==
    [][\A t \in Tasks :
        LET key == CacheKey(productId[t])
            basic == Product(productId[t], "basic")
            noPage == pc[t] = "ewbThrown" \/ err[t] # "ok"
        IN
        /\ (fpc[t] = "page" /\ fpc'[t] # "page" /\ noPage /\ productData[t] = basic) =>
              /\ apiError[t] # "none"
              /\ apiError[t] \in Retryable => backoffTime["api"] >= maxBackoffTime
              /\ fpc'[t] = "cacheSet" /\ fetchedData'[t] = basic /\ pageData'[t] = NoData
              /\ ev'.op = "set" /\ ev'.key = key /\ ev'.by = t
              /\ ~isCacheDisabled => (MapHas(cache', key) /\ MapGet(cache', key).data = basic)
        /\ (fpc[t] = "cacheSet" /\ fpc'[t] = "done" /\ apiError[t] # "none"
                /\ pageData[t] = NoData /\ productData[t] = basic) =>
              returned'[t] = [how |-> "value", data |-> basic, error |-> "none"]]_vars

\* C16 witness: the primary tier gave up on a challenge at the maximal backoff,
\* the page fetch resolved with null, and the call has returned the basic
\* Product, which the store holds
C16_Witness ==
    /\ fpc[1] = "done" /\ apiError[1] = "FAIL_SYS_USER_VALIDATE"
    /\ backoffTime["api"] = maxBackoffTime
    /\ pageData[1] = NoData /\ lim[1] = "page" /\ err[1] = "null"
    /\ returned[1] = [how |-> "value", data |-> Product(productId[1], "basic"), error |-> "none"]
    /\ MapHas(cache, CacheKey(productId[1]))
    /\ MapGet(cache, CacheKey(productId[1])).data = returned[1].data

\* C17: when the primary tier's fn finds no auth token, it throws without
\* sending a request; executeWithBackoff throws the error on at once, with no
\* backoff sleep, no second invocation and backoffTime as it was, and the next
\* thing the fetchProductData call does is enter the fallback tier
C17_NoTokenStraightToFallback ==
    [][\A t \in Tasks :
        /\ (fpc[t] = "api" /\ pc[t] = "admitted" /\ pc'[t] \notin {"admitted", "inflight"}) =>
              /\ pc'[t] = "ewbThrown" /\ err'[t] = NoTokenError
              /\ wake'[t] = NoTime
              /\ backoffTime' = backoffTime /\ requests' = requests
        /\ (fpc[t] = "api" /\ err[t] = NoTokenError) =>
              /\ pc[t] = "ewbThrown"
              /\ backoffTime' = backoffTime
              /\ (pc'[t] # pc[t] \/ fpc'[t] # fpc[t]) =>
                    /\ fpc'[t] = "page" /\ lim'[t] = "page"
                    /\ apiError'[t] = NoTokenError
                    /\ pc'[t] \in {"admitted", "slotWait"}
                    /\ requests'["api"] = requests["api"]]_vars

\* C17 witness: the primary tier had backed off once (backoffTime 2000) when
\* its fn found no token; the call is in the fallback tier with the no-token
\* error as apiError and backoffTime still 2000
C17_Witness ==
    /\ fpc[1] = "page" /\ apiError[1] = NoTokenError
    /\ backoffTime["api"] = 2 * initialBackoffTime
    /\ pc[1] = "inflight" /\ lim[1] = "page"

\* C18: when fn fails with an error that carries neither retryable code (no
\* token, a transport error or unusable reply, another API error),
\* executeWithBackoff throws that error in the very step in which fn failed:
\* no timer is armed, backoffTime and the request log stay as they were, and
\* the task does not invoke fn again in that executeWithBackoff call
C18_OtherFailurePropagates ==
    [][\A t \in Tasks :
        /\ \A o \in {"network_error", "api_other_error", NoTokenError} :
              (FnSettle(t, o) \/ (o = NoTokenError /\ InvokeFnNoToken(t))) =>
                  /\ pc'[t] = "ewbThrown" /\ err'[t] = o
                  /\ wake' = wake
                  /\ backoffTime' = backoffTime
                  /\ requests' = requests
        /\ (pc[t] = "ewbThrown" /\ pc'[t] # "ewbThrown") =>
              (pc'[t] = "idle" \/ lim'[t] # lim[t])]_vars

\* C18 witness: the primary tier's request failed with a transport error while
\* the backoff stood at 4000 ms from earlier challenges; executeWithBackoff
\* has thrown that error and the backoff is still 4000 ms
C18_Witness ==
    /\ fpc[1] = "api" /\ pc[1] = "ewbThrown" /\ err[1] = "network_error"
    /\ backoffTime["api"] = 4 * initialBackoffTime
    /\ wake[1] = NoTime

\* C19: when fn resolves, executeWithBackoff returns what fn resolved with, in
\* the same step sets the backoffTime of its instance to 1000 ms whatever it
\* was, and leaves the other instance's backoffTime alone
C19_SuccessResetsBackoff ==
    [][\A t \in Tasks :
        /\ \A o \in {"ok", "null"} :
              FnSettle(t, o) =>
                  /\ pc'[t] = "ewbReturned" /\ err'[t] = o
                  /\ backoffTime' = [backoffTime EXCEPT ![lim[t]] = 1000]
        /\ (pc[t] = "inflight" /\ pc'[t] = "ewbReturned") =>
              (err'[t] \in {"ok", "null"} /\ backoffTime'[lim[t]] = 1000)]_vars

\* C19 witness: a task's action has just succeeded and the backoff of its
\* instance is 1000 ms, while another task of that instance is still asleep
\* in a backoff of 4000 ms that it entered at this very instant
C19_Witness ==
    \E t, u \in Tasks :
        /\ pc[t] = "ewbReturned" /\ err[t] = "ok"
        /\ lim[u] = lim[t] /\ pc[u] = "backoffSleep" /\ wake[u] = 4000
        /\ backoffTime[lim[t]] = 1000

\* C20: waitForSlot only delays. A suspended call stays suspended or is
\* admitted, and nothing else; a call is admitted only in a step that appends
\* the current instant to the instance's log; and when every caller makes
\* finitely many calls, due timers fire and time advances, every suspended
\* call is eventually admitted
C20_WaitForSlotOnlyDelays ==
    /\ [][\A t \in Tasks :
            /\ pc[t] = "slotWait" => pc'[t] \in {"slotWait", "admitted"}
            /\ (pc[t] # "admitted" /\ pc'[t] = "admitted") =>
                  /\ Len(requests'[lim'[t]]) = Len(FilterRequests(requests[lim'[t]], now)) + 1
                  /\ Len(requests'[lim'[t]]) <= maxRequests[lim'[t]]
                  /\ requests'[lim'[t]][Len(requests'[lim'[t]])] = now]_vars
    /\ \A t \in Tasks : (pc[t] = "slotWait") ~> (pc[t] = "admitted")

\* C20 witness: a call that was suspended has been admitted, on the instance
\* that admits one request per window, after the other caller had made all
\* its calls on that instance
C20_Witness ==
    \E t, u \in Tasks :
        /\ t # u /\ lim[t] = "page" /\ lim[u] = "page"
        /\ pc[t] = "admitted" /\ slotCalls.waited[t]
        /\ slotCalls.n[u] = MaxCalls /\ requests["page"] = <<now>>

\* C21: the backoff belongs to the instance. A task that fails retryably
\* sleeps for the backoffTime its instance has at that moment, whichever task
\* brought it there, and on waking doubles that instance's backoffTime; the
\* backoffTime of an instance changes, and its request log gains or loses an
\* entry, only in a step of a task that is running on that instance
C21_BackoffPerInstance ==
    [][/\ \A t \in Tasks :
            /\ (pc[t] = "inflight" /\ pc'[t] = "backoffSleep") =>
                  wake'[t] = now + backoffTime[lim[t]]
            /\ (pc[t] = "backoffSleep" /\ pc'[t] # "backoffSleep") =>
                  backoffTime' = [backoffTime EXCEPT ![lim[t]] = Min(2 * @, maxBackoffTime)]
       /\ \A l \in Limiters :
            (\/ backoffTime'[l] # backoffTime[l]
             \/ Len(requests'[l]) # Len(requests[l])) =>
                \E t \in Tasks : lim'[t] = l /\ pc'[t] # pc[t]]_vars

\* C21 witness: on the API instance one task is back in flight after its
\* backoff sleep doubled the backoff to 2000 ms, and the other task has just
\* failed retryably and sleeps 2000 ms; the page instance has admitted nothing
\* and its backoff is 1000 ms
C21_Witness ==
    \E a, b \in Tasks :
        /\ a # b /\ lim[a] = "api" /\ lim[b] = "api"
        /\ pc[a] = "inflight"
        /\ pc[b] = "backoffSleep" /\ wake[b] = 2000
        /\ backoffTime = [l \in Limiters |-> IF l = "api" THEN 2000 ELSE 1000]
        /\ requests["page"] = <<>> /\ recent["page"] = <<>>

C23_OtherItemStillResolves ==
    /\ [](fpc[TaskY] # "page")
    /\ [](fpc[TaskY] = "done" =>
            returned[TaskY] = [how |-> "value", data |-> Product(ItemY, "api"),
                               error |-> "none"])
    /\ (fpc[TaskY] = "cacheGet") ~> (fpc[TaskY] = "done")

\* C23 witness: the call for ItemX has given up on a challenge at the maximal
\* backoff, got nothing from the page and returned null; the call for ItemY,
\* whose success had reset the backoff while the other call was retrying, has
\* returned ItemY's API Product
C23_Witness ==
    /\ fpc[TaskX] = "done" /\ returned[TaskX].how = "null"
    /\ apiError[TaskX] = "FAIL_SYS_USER_VALIDATE"
    /\ backoffTime["api"] = maxBackoffTime
    /\ fpc[TaskY] = "done" /\ returned[TaskY].data = Product(ItemY, "api")
    /\ MapHas(cache, CacheKey(ItemY))

\* C27: initialize() run with caching enabled on a persisted snapshot leaves
\* the store holding exactly the snapshot's entries whose expiresAt is not
\* before the present instant, in the snapshot's order; and a get returns
\* data only from an entry of the store whose expiresAt is not before the
\* present instant, so an entry dropped at load time is never returned
C27_LoadKeepsUnexpired ==
    [][/\ (Initialize /\ ~isCacheDisabled /\ storage.present) =>
              /\ cache' = SelectSeq(storage.snap, LAMBDA e : e.expiresAt >= now)
              /\ \A i \in 1..Len(storage.snap) :
                    storage.snap[i].expiresAt < now => ~MapHas(cache', storage.snap[i].key)
       /\ \A p \in Products :
            (Get(CacheKey(p)) /\ ev'.ret # NoData) =>
                \E i \in 1..Len(cache) :
                    /\ cache[i].key = CacheKey(p) /\ cache[i].data = ev'.ret
                    /\ cache[i].expiresAt >= now]_vars

\* C27 witness: initialize() has just loaded a snapshot of two entries, one
\* of them expired: the store holds the other one only
C27_Witness ==
    /\ ev.op = "initialize" /\ ~ev.disabled
    /\ storage.present /\ Len(storage.snap) = 2
    /\ \E i \in 1..2 : storage.snap[i].expiresAt < now /\ cache = <<storage.snap[3 - i]>>

C26_Median ==
    (calc.fn = "calculatePageContext" /\ calc.called) =>
        LET p == calc.prices
            n == Len(p)
        IN
        /\ calc.ret.isNull <=> n = 0
        /\ n > 0 =>
              /\ \A i \in 1..(n - 1) : p[i] <= p[i + 1]
              /\ n % 2 = 1 => calc.ret.median = p[(n + 1) \div 2]
              /\ n % 2 = 0 => 2 * calc.ret.median = p[n \div 2] + p[n \div 2 + 1]
              /\ p[1] <= calc.ret.median /\ calc.ret.median <= p[n]
              /\ \A i \in 1..Len(calc.cards) :
                    Truthy(calc.cards[i]) =>
                        (p[1] <= calc.cards[i] /\ calc.cards[i] <= p[n])
        /\ p = <<10 * Unit, 20 * Unit, 30 * Unit>> => calc.ret.median = 20 * Unit
        /\ p = <<10 * Unit, 20 * Unit, 30 * Unit, 40 * Unit>> => calc.ret.median = 25 * Unit

\* C26 witness: the cards gave 40, 10, 30 and 20 in that order; the median of
\* the context is 25
C26_Witness ==
    /\ calc.fn = "calculatePageContext" /\ calc.called
    /\ calc.cards = <<40 * Unit, 10 * Unit, 30 * Unit, 20 * Unit>>
    /\ calc.prices = <<10 * Unit, 20 * Unit, 30 * Unit, 40 * Unit>>
    /\ calc.ret.median = 25 * Unit

\* C25: with a context and at least one variant, findBestMatchingVariant
\* returns the variant whose score (1 / (|discountedValue - median| + 1))
\* * (1.5 inside [lowerBound, upperBound], else 0.5) * (1.3 for a main
\* product, else 0.7) is the largest, the first such variant of the input
\* among equals, together with that score; with median 44, an accessory at 5
\* and a main product at 45, the latter is returned with score 0.975
C25_BestIsFirstMaximum ==
    (calc.fn = "findBestMatchingVariant" /\ calc.called
        /\ ~calc.context.isNull /\ Len(calc.variants) > 0) =>
        LET c == calc.context
            v == calc.variants
            \* score(i) = hundredths(i) * Unit / (100 * dist(i))
            hundredths(i) ==
                (IF c.lowerBound <= v[i].discountedValue /\ v[i].discountedValue <= c.upperBound
                 THEN 15 ELSE 5)
                * (IF v[i].isMainProduct THEN 13 ELSE 7)
            dist(i) == (IF v[i].discountedValue >= c.median
                        THEN v[i].discountedValue - c.median
                        ELSE c.median - v[i].discountedValue) + Unit
            Greater(i, j) == hundredths(i) * dist(j) > hundredths(j) * dist(i)
            best == calc.ret.id
        IN
        /\ best \in 1..Len(v)
        /\ calc.ret.discountedValue = v[best].discountedValue
        /\ calc.ret.isMainProduct = v[best].isMainProduct
        /\ calc.ret.den > 0
        /\ calc.ret.num * 100 * dist(best) = hundredths(best) * Unit * calc.ret.den
        /\ \A j \in 1..Len(v) : ~Greater(j, best)
        /\ \A j \in 1..(best - 1) : Greater(best, j)
        /\ (c.median = 44 * Unit
              /\ v = <<[discountedValue |-> 5 * Unit, isMainProduct |-> FALSE],
                       [discountedValue |-> 45 * Unit, isMainProduct |-> TRUE]>>)
             => (best = 2 /\ calc.ret.num * 1000 = 975 * calc.ret.den)

\* C25 witness: three variants, the second and third with the same, largest
\* score; the second is returned
C25_Witness ==
    /\ calc.fn = "findBestMatchingVariant" /\ calc.called
    /\ calc.context.median = 44 * Unit
    /\ calc.variants = <<[discountedValue |-> 5 * Unit, isMainProduct |-> FALSE],
                         [discountedValue |-> 45 * Unit, isMainProduct |-> TRUE],
                         [discountedValue |-> 45 * Unit, isMainProduct |-> TRUE]>>
    /\ calc.ret.id = 2

\* C24: whichever tier produced it (the parse of the API response, alone or
\* merged with the data of the card, the parse of the product page, the card
\* alone), a product has at least one variant
C24_VariantsNonEmpty ==
    calc.called =>
        /\ calc.fn \in {"parseProductData", "extractProductDataFromHTML", "basic"}
        /\ ~calc.ret.isNull => Len(calc.ret.variants) >= 1
        /\ calc.fn = "parseProductData" =>
              (~calc.ret.isNull /\ ~calc.merged.isNull /\ Len(calc.merged.variants) >= 1)
        /\ calc.fn = "basic" => ~calc.ret.isNull

\* C24 witness: the page held product data with an empty SKU list; the
\* product has the one default variant
C24_Witness ==
    /\ calc.fn = "extractProductDataFromHTML" /\ calc.called
    /\ calc.data.found /\ calc.data.skuList = <<>>
    /\ ~calc.ret.isNull /\ Len(calc.ret.variants) = 1

\* C29: in a product parsed from the API response and in a product parsed
\* from the product page alike, a variant whose name contains an accessory
\* keyword, whatever the case of its letters, has isMainProduct false, and
\* every other variant has isMainProduct true
C29_SameRuleInEveryTier ==
    (calc.fn \in {"parseProductData", "extractProductDataFromHTML"}
        /\ calc.called /\ ~calc.ret.isNull) =>
        \A i \in 1..Len(calc.ret.variants) :
            LET variant == calc.ret.variants[i] IN
            "name" \in DOMAIN variant =>
                (variant.isMainProduct <=>
                    ~\E keyword \in accessoryKeywords :
                        includes(toLowerCase(variant.name), keyword))

\* C30: of a response without SKU list parseProductData makes a product with
\* exactly one variant, which has id 'default', name 'Default', isMainProduct
\* true, as price value the first usable number of the candidate paths, and
\* shipping cost 0
C30_OneDefaultVariant ==
    (calc.fn = "parseProductData" /\ calc.called /\ Len(calc.data.skuPaths) = 0) =>
        /\ ~calc.ret.isNull
        /\ Len(calc.ret.variants) = 1
        /\ LET variant == calc.ret.variants[1]
               paths == calc.data.paths
           IN
           /\ {"id", "name", "isMainProduct", "price", "shipping"} \subseteq DOMAIN variant
           /\ variant.id = "default"
           /\ variant.name = "Default"
           /\ variant.isMainProduct
           /\ \A i \in 1..Len(paths) :
                 (IsUsableNumber(paths[i]) /\ \A j \in 1..(i - 1) : ~IsUsableNumber(paths[j]))
                     => variant.price.value = paths[i]
           /\ variant.shipping.cost = 0

\* C31: the shipping cost of every variant of a product parsed from a
\* response that offers shipping options is the smallest cost among those
\* options, wherever in the list the cheapest option stands
C31_ShippingIsMinimum ==
    (calc.fn = "parseProductData" /\ calc.called /\ ~calc.data.fail
        /\ Len(calc.data.deliveryLayoutInfo) > 0
        /\ \A i \in 1..Len(calc.data.skuPaths) : calc.data.skuPaths[i] # NullSku) =>
        LET options == calc.data.deliveryLayoutInfo IN
        \A i \in 1..Len(calc.ret.variants) :
            /\ "shipping" \in DOMAIN calc.ret.variants[i]
            /\ \E k \in 1..Len(options) : calc.ret.variants[i].shipping.cost = options[k]
            /\ \A k \in 1..Len(options) : calc.ret.variants[i].shipping.cost <= options[k]

\* the sum of the counts of a list of clusters
RECURSIVE SumOfCounts(_)
SumOfCounts(clusters) ==
    IF clusters = <<>> THEN 0 ELSE Head(clusters).count + SumOfCounts(Tail(clusters))

\* C32: the clusters of the context count every collected price exactly
\* once, the largest one and prices that are all equal included: the counts
\* add up to the number of collected prices
C32_HistogramCountsAll ==
    (calc.fn = "calculatePageContext" /\ calc.called /\ ~calc.ret.isNull) =>
        SumOfCounts(calc.ret.clusters) = Len(calc.prices)

\* C33: a primary tier that ended with a not-found answer, an API error other
\* than the two that are retried, ends the call: the fallback page fetch is
\* not entered, no page or card data is substituted, and the caller gets the
\* error, not a value
C33_NotFoundIsTerminal ==
    \A t \in Tasks :
        apiError[t] = "api_other_error" =>
            /\ fpc[t] # "page"
            /\ pageData[t] = NoData
            /\ fetchedData[t] = NoData
            /\ returned[t].how \notin {"value", "null"}

\* C34: fn is invoked only by a task whose own waitForSlot on that instance
\* has just recorded an admission, the first time and after every backoff
\* sleep alike: a sleeper that wakes asks for a slot again, an admission is
\* one new entry in the request log within the cap, and each admission is
\* used up by one invocation, so there are never more invocations than
\* recorded admissions
C34_EveryInvocationAdmitted ==
    [][\A t \in Tasks :
          /\ (pc'[t] = "inflight" /\ pc[t] # "inflight") => pc[t] = "admitted"
          /\ (pc'[t] \in {"ewbReturned", "ewbThrown", "backoffSleep"} /\ pc[t] # pc'[t])
                => pc[t] \in {"inflight", "admitted"}
          /\ (pc[t] = "backoffSleep" /\ pc'[t] # "backoffSleep")
                => pc'[t] \in {"admitted", "slotWait"}
          /\ (pc'[t] = "admitted" /\ pc[t] # "admitted") =>
                LET l == lim'[t] IN
                /\ Len(requests'[l]) \in 1..maxRequests[l]
                /\ requests'[l][Len(requests'[l])] = now
                /\ \A u \in Tasks \ {t} : pc'[u] = "admitted" => pc[u] = "admitted"
      ]_vars

\* C34 witness: the only task that has entered executeWithBackoff has its
\* request in flight again after a backoff sleep, with two admissions in the
\* request log
C34_Witness ==
    \E t \in Tasks :
        /\ pc[t] = "inflight"
        /\ \A u \in Tasks \ {t} : pc[u] = "idle"
        /\ backoffTime[lim[t]] = 2 * initialBackoffTime
        /\ Len(requests[lim[t]]) = 2

\* C35: whatever the interleaving of the callers, the backoffTime of each
\* RateLimiter is 1000, 2000, 4000, 8000, 16000 or 32000
C35_BackoffValues ==
    \A l \in Limiters :
        /\ backoffTime[l] \in {1000, 2000, 4000, 8000, 16000, 32000}
        /\ initialBackoffTime <= backoffTime[l]
        /\ backoffTime[l] <= maxBackoffTime

\* C35 witness: a task is still asleep in its backoff when the other task,
\* awake again, has doubled the backoffTime of their instance to the maximum;
\* the sleeper will double it once more on waking
C35_Witness ==
    \E t \in Tasks, u \in Tasks :
        /\ t # u /\ lim[t] = lim[u]
        /\ pc[t] = "backoffSleep" /\ pc[u] \in {"admitted", "inflight"}
        /\ backoffTime[lim[t]] = maxBackoffTime

\* C36: while the backoffTime of an instance is at the maximum, it stays
\* there until an action on that instance succeeds and resets it, and no
\* failure on that instance puts its task to sleep: a retryable failure is
\* thrown to the caller at once
C36_MaxBackoffSticks ==
    [][\A l \in Limiters :
          backoffTime[l] = maxBackoffTime =>
              /\ backoffTime'[l] \in {maxBackoffTime, resetBackoffTime}
              /\ backoffTime'[l] # maxBackoffTime =>
                    \E t \in Tasks : /\ lim[t] = l
                                      /\ pc[t] = "inflight"
                                      /\ pc'[t] = "ewbReturned"
              /\ \A t \in Tasks :
                    (lim[t] = l /\ pc[t] = "inflight" /\ pc'[t] # "inflight") =>
                        /\ pc'[t] \in {"ewbReturned", "ewbThrown"}
                        /\ pc'[t] = "ewbThrown" =>
                              (wake'[t] = wake[t] /\ requests' = requests)
      ]_vars

\* C36 witness: both tasks have been thrown a retryable failure by the same
\* instance, whose backoffTime is at the maximum
C36_Witness ==
    \E t \in Tasks, u \in Tasks :
        /\ t # u /\ lim[t] = lim[u]
        /\ pc[t] = "ewbThrown" /\ err[t] \in Retryable
        /\ pc[u] = "ewbThrown" /\ err[u] \in Retryable
        /\ backoffTime[lim[t]] = maxBackoffTime

\* C37: with caching enabled, set of a key the store holds gives the key new
\* data, timestamp and expiresAt, leaves every other entry as it is and every
\* key, the rewritten one included, at its place in the order; set of an
\* absent key on a full store evicts the key at the first place, the one
\* inserted earliest, even if it has since been rewritten
C37_RewriteKeepsPlace ==
    [][\A p \in Products :
          LET k == CacheKey(p)
              d == Product(p, "api")
          IN (Set(k, d) /\ ~isCacheDisabled) =>
                /\ MapHas(cache, k) =>
                      /\ MapKeys(cache') = MapKeys(cache)
                      /\ \A i \in 1..Len(cache) :
                            IF cache[i].key = k
                            THEN /\ cache'[i].data = d
                                 /\ cache'[i].timestamp = now
                                 /\ cache'[i].expiresAt = now + duration
                            ELSE cache'[i] = cache[i]
                /\ (~MapHas(cache, k) /\ Len(cache) >= maxEntries) =>
                      /\ MapKeys(cache') = Append(Tail(MapKeys(cache)), k)
                      /\ \A i \in 2..Len(cache) : cache'[i - 1] = cache[i]
      ]_vars

\* C37 witness: on a full store the key inserted earliest has just been set
\* again, later than the key behind it was written; it is still first, the
\* next to be evicted
C37_Witness ==
    /\ ev.op = "set" /\ ~ev.disabled /\ ev.existed
    /\ Len(cache) = maxEntries
    /\ cache[1].key = ev.key
    /\ cache[1].timestamp = now
    /\ cache[1].timestamp > cache[2].timestamp

\* C38: within one fetchProductData call the page request is sent at most
\* once: the fallback tier is entered only from the primary tier, its one
\* request ends executeWithBackoff with a value (a Product or null), never
\* with a sleep or a throw, and the call then leaves the tier for good; the
\* backoffTime of pageFetchRateLimiter is always its initial value
C38_PageFetchedOnce ==
    /\ [](backoffTime["page"] = initialBackoffTime)
    /\ [][\A t \in Tasks :
             /\ (fpc'[t] = "page" /\ fpc[t] # "page") => fpc[t] = "api"
             /\ (fpc[t] = "page" /\ pc[t] = "inflight" /\ pc'[t] # "inflight")
                   => (pc'[t] = "ewbReturned" /\ fpc'[t] = "page")
             /\ (fpc[t] = "page" /\ pc'[t] = "inflight" /\ pc[t] # "inflight")
                   => (pc[t] = "admitted" /\ pageData[t] = NoData)
             /\ (fpc[t] = "page" /\ pc[t] = "ewbReturned" /\ pc'[t] # "ewbReturned")
                   => fpc'[t] \in {"cacheSet", "done"}
             /\ (fpc[t] = "page" /\ pc[t] \in {"admitted", "slotWait"})
                   => pc'[t] \in {"admitted", "slotWait", "inflight"}
         ]_vars

\* C38 witness: the page request of a call failed (null) and the call has
\* ended without page data
C38_Witness ==
    \E t \in Tasks :
        /\ fpc[t] = "done"
        /\ apiError[t] # "none"
        /\ pageData[t] = NoData
        /\ returned[t].how \in {"value", "null"}

\* C39: every fetchProductData call that has begun eventually ends, also
\* when the primary endpoint answers every request with the rate-limit error
C39_EveryCallSettles ==
    \A t \in Tasks : (fpc[t] = "cacheGet") ~> (fpc[t] = "done")

\* C39 witness: both calls have ended, one of them after the rate-limit error
\* was thrown to it at the maximal backoff
C39_Witness ==
    /\ \A t \in Tasks : fpc[t] = "done"
    /\ \E t \in Tasks : apiError[t] = "FAIL_SYS_ILLEGAL_ACCESS"
    /\ backoffTime["api"] = maxBackoffTime

\* history: the keys of mark m that a set made with the cache enabled again
\* has dropped, and whose save has been carried out
DroppedKeys(m) == {k \in Keys : stale.drop[k].was = m /\ stale.drop[k].wait = 0}

\* history: the keys of mark m dropped by a set whose save is still queued
DroppingKeys(m) == {k \in Keys : stale.drop[k].was = m /\ stale.drop[k].wait > 0}

\* C40 (as amended): once the handler that disabled the cache has cleared the
\* store while the stored snapshot held key k, the first set of another key
\* made with the cache enabled again, without initialize() in between, issues
\* a save of a snapshot without k; once that save is carried out the stored
\* snapshot does not hold k, nor does the store, and get(k) returns null, also
\* after a later initialize(), until k is set anew
C40_DroppedByFirstSet ==
    /\ \A k \in DroppingKeys("cleared") :
          /\ stale.drop[k].wait <= Len(saveQueue)
          /\ saveQueue[stale.drop[k].wait].k = "aliexpress_cache"
          /\ ~MapHas(saveQueue[stale.drop[k].wait].snap, k)
    /\ \A k \in DroppedKeys("cleared") :
          /\ ~MapHas(storage.snap, k)
          /\ ~MapHas(cache, k)
          /\ (ev.op = "get" /\ ev.key = k) => ev.ret = NoData

\* C40 witness: the snapshot held k when the disabling handler cleared the
\* store; the cache was enabled again, another key was set and saved, and a
\* later initialize() has reloaded a snapshot that holds that key and not k
C40_Witness ==
    /\ ev.op = "initialize" /\ ~ev.disabled
    /\ DroppedKeys("cleared") # {}
    /\ cache # <<>>
    /\ KeySet(cache) = KeySet(storage.snap)

\* C40 (as stated): a key the stored snapshot held when the cache was disabled
\* is absent from the stored snapshot once the first set made after the cache
\* was enabled again has been saved, and get does not return it
C40_DroppedAfterDisabling ==
    \A k \in DroppedKeys("disabled") \cup DroppedKeys("cleared") :
        /\ ~MapHas(storage.snap, k)
        /\ (ev.op = "get" /\ ev.key = k) => ev.ret = NoData

====
